---- MODULE Spec2Model ----
(***************************************************************************)
(* Ingestion orchestration core of virtues-os/virtues (old/sources/base):  *)
(* the scheduler probe (check_scheduled_syncs), the sync task runner with  *)
(* its retry engine (sync_stream under Celery), the processing tasks, the  *)
(* pipeline_activities ledger, the cron due-test (should_sync) and the     *)
(* outbound API clients' 401 refresh-and-retry.                            *)
(*                                                                         *)
(* Time is in seconds.  The relational database is modelled by its         *)
(* committed state; a task's SQLAlchemy session is a working copy that     *)
(* becomes the committed state at db.commit() and is dropped when the      *)
(* session is closed without a commit.                                     *)
(***************************************************************************)
EXTENDS Integers, Sequences, FiniteSets, TLC

\* SQL NULL / Python None for string-valued columns, and for timestamps.
NULL == "NULL"
NoTime == 0 - 1

-----------------------------------------------------------------------------
\* Bounds of the model.
MaxTasks == 2
MaxProbes == 2
MaxTicks == 1
MaxActivities == 3
MaxStartMinute == 59
MaxRefreshCalls == 2

\* Seconds the clock advances per Tick (half an hour).
TickSeconds == 1800

-----------------------------------------------------------------------------
\* Program constants.
max_retries == 3
BackoffBase == 60
DefaultRetryDelay == 180

StreamIds == {"s1", "s2"}
TaskIds == 1..MaxTasks

\* Tokens a connector may hand back as next_sync_token.
SyncTokens == {"tokA"}

VARIABLES
    now,             \* wall clock, seconds
    streams,         \* table streams: id -> row
    stream_configs,  \* table stream_configs joined with source_configs: id -> row
    sources,         \* table sources: id -> row
    activities,      \* table pipeline_activities, in insertion order
    tasks,           \* Celery messages and executions: task id -> record
    probe,           \* the check_scheduled_syncs beat task
    req,             \* one outbound API request of a client
    cron,            \* one evaluation pair of should_sync
    auth,            \* credentials: the refresh job, a refresher, device tokens, pairing
    conn             \* one run of a connector's Sync

vars == <<now, streams, stream_configs, sources, activities, tasks, probe, req, cron, auth, conn>>

-----------------------------------------------------------------------------
(***************************************************************************)
(* Catalogue rows.  A profile is one combination of the columns the        *)
(* scheduler and the task runner read.                                     *)
(***************************************************************************)
HalfHourly == "*/30 * * * *"

GoodProfile ==
    [enabled |-> TRUE, status |-> "active", ingestion_type |-> "pull",
     cron_schedule |-> HalfHourly, platform |-> "cloud",
     auth_type |-> "oauth2", source_status |-> "active"]

Profiles ==
    { GoodProfile,
      [GoodProfile EXCEPT !.enabled = FALSE],
      [GoodProfile EXCEPT !.status = "paused"],
      [GoodProfile EXCEPT !.ingestion_type = "push"],
      [GoodProfile EXCEPT !.cron_schedule = NULL],
      [GoodProfile EXCEPT !.cron_schedule = "every half hour"],
      [GoodProfile EXCEPT !.cron_schedule = ""],
      [GoodProfile EXCEPT !.platform = "device"],
      [GoodProfile EXCEPT !.source_status = "error"] }

ConfigIdOf(s) == IF s = "s1" THEN "c1" ELSE "c2"
SourceIdOf(s) == IF s = "s1" THEN "g1" ELSE "g2"
ConfigIds == {ConfigIdOf(s) : s \in StreamIds}
SourceIds == {SourceIdOf(s) : s \in StreamIds}

NoTask ==
    [name |-> NULL, stream |-> NULL, manual |-> FALSE, state |-> "none",
     retries |-> 0, delays |-> <<>>, origin |-> 0, act |-> 0,
     outcome |-> [kind |-> "none", msg |-> <<>>, token |-> NULL, encodable |-> TRUE,
                 tx |-> FALSE],
     activity_id |-> 0, terminal_seen |-> FALSE]

IdleReq == [pc |-> "off"]
IdleCron == [pc |-> "off"]
IdleAuth == [pc |-> "off"]
IdleConn == [pc |-> "off"]

\* The rows of the three tables for a choice of profiles; t is the
\* last_ingestion_at of every configuration (NoTime: never synced).
StreamRows(pf) ==
    [s \in StreamIds |->
        [enabled |-> pf[s].enabled, stream_config_id |-> ConfigIdOf(s),
         source_id |-> SourceIdOf(s), sync_cursor |-> NULL,
         last_sync_at |-> NoTime, last_sync_status |-> NULL]]

ConfigRows(pf, t) ==
    [c \in ConfigIds |->
        LET s == CHOOSE x \in StreamIds : ConfigIdOf(x) = c IN
        [status |-> pf[s].status, ingestion_type |-> pf[s].ingestion_type,
         cron_schedule |-> pf[s].cron_schedule, platform |-> pf[s].platform,
         auth_type |-> pf[s].auth_type, last_ingestion_at |-> t]]

SourceRows(pf) ==
    [g \in SourceIds |->
        LET s == CHOOSE x \in StreamIds : SourceIdOf(x) = g IN
        [status |-> pf[s].source_status, oauth_access_token |-> "at0"]]

SyncInit ==
    /\ now = 0
    /\ \E pf \in [StreamIds -> Profiles] :
        /\ pf["s2"] = GoodProfile
        /\ streams = StreamRows(pf)
        /\ stream_configs = ConfigRows(pf, NoTime)
        /\ sources = SourceRows(pf)
    /\ activities = <<>>
    /\ tasks = [t \in TaskIds |-> NoTask]
    /\ probe = [state |-> "idle", count |-> 0, act |-> 0, examined |-> 0]

-----------------------------------------------------------------------------
(***************************************************************************)
(* The database as one value, for the operators that model SQL statements. *)
(***************************************************************************)
Committed ==
    [streams |-> streams, stream_configs |-> stream_configs, activities |-> activities]

\* INSERT INTO pipeline_activities ... status 'running' (uuid4 id: the row index).
InsertActivity(d, type, stream, owner, status) ==
    [d EXCEPT !.activities = Append(@,
        [id |-> Len(@) + 1, activity_type |-> type, status |-> status,
         stream_id |-> stream, owner |-> owner, streams_checked |-> 0,
         streams_triggered |-> 0, has_error |-> FALSE])]

\* UPDATE pipeline_activities SET status = ... WHERE id = :id (no row: no effect).
UpdateActivityStatus(d, id, status, msg) ==
    IF id \in 1..Len(d.activities)
    THEN [d EXCEPT !.activities[id].status = status,
                   !.activities[id].has_error = (msg # <<>>)]
    ELSE d

\* UPDATE stream_configs SET last_ingestion_at = utcnow() WHERE id = :id
UpdateLastIngestion(d, c, t) ==
    [d EXCEPT !.stream_configs[c].last_ingestion_at = t]

\* UPDATE streams SET sync_cursor, last_sync_at, last_sync_status = 'success'
UpdateSyncCursor(d, s, token, t) ==
    [d EXCEPT !.streams[s].sync_cursor = token,
              !.streams[s].last_sync_at = t,
              !.streams[s].last_sync_status = "success"]

-----------------------------------------------------------------------------
(***************************************************************************)
(* Cron due-test (maintenance_tasks.should_sync and croniter).             *)
(***************************************************************************)
\* The minute-field step of the five-field expressions the catalogue uses;
\* 0 stands for an expression croniter rejects (it raises).
CronMinuteStep(expr) ==
    IF expr = "*/30 * * * *" THEN 30
    ELSE IF expr = "*/15 * * * *" THEN 15
    ELSE 0

\* A schedule that counts the step from `start` instead of from the clock.
CronNextFromStart(step, start) ==
    start + step * 60

\* croniter(expr, start).get_next(): the first whole minute strictly after
\* `start` whose minute-of-hour is a multiple of the step.
CronNext(step, start) ==
    LET m0 == start \div 60
        cand == {m \in (m0 + 1)..(m0 + 60) : ((m % 60) % step) = 0}
        m == CHOOSE x \in cand : \A y \in cand : x <= y
    IN  m * 60

should_sync(cron_schedule, last_ingestion_at, t) ==
    IF cron_schedule \in {NULL, ""} THEN FALSE
    ELSE IF last_ingestion_at = NoTime THEN TRUE
    ELSE IF CronMinuteStep(cron_schedule) = 0 THEN FALSE
    ELSE CronNext(CronMinuteStep(cron_schedule), last_ingestion_at) <= t

-----------------------------------------------------------------------------
(***************************************************************************)
(* Celery: messages, retries (Task.retry and the autoretry_for wrapper).   *)
(***************************************************************************)
FreeTasks(tk) == {t \in TaskIds : tk[t].state = "none"}

NewTask(name, stream, manual, origin, activity_id) ==
    [NoTask EXCEPT !.name = name, !.stream = stream, !.manual = manual,
                   !.state = "queued", !.origin = origin,
                   !.activity_id = activity_id]

\* task.delay(...) / app.send_task(...): the message takes a fresh task id.
Enqueue(tk, task) ==
    LET t == CHOOSE x \in FreeTasks(tk) : \A y \in FreeTasks(tk) : x <= y
    IN  [tk EXCEPT ![t] = task]

RECURSIVE EnqueueAll(_, _, _)
EnqueueAll(tk, ss, origin) ==
    IF ss = <<>> THEN tk
    ELSE EnqueueAll(Enqueue(tk, NewTask("sync_stream", Head(ss), FALSE, origin, 0)),
                    Tail(ss), origin)

NoOutcome ==
    [kind |-> "none", msg |-> <<>>, token |-> NULL, encodable |-> TRUE, tx |-> FALSE]

\* Task.retry(countdown=...): the same task is sent again with retries + 1.
Retried(task, countdown) ==
    [task EXCEPT !.state = "queued", !.retries = @ + 1,
                 !.delays = Append(@, countdown), !.act = 0,
                 !.outcome = NoOutcome]

\* The run() wrapper Celery installs for autoretry_for=(Exception,),
\* retry_kwargs={'max_retries': 3}: an exception leaving the task body is
\* answered by task.retry(exc=exc, max_retries=3), which re-sends the task
\* with the default delay unless retries + 1 exceeds max_retries.
AutoRetry(task) ==
    IF task.retries + 1 > max_retries
    THEN [task EXCEPT !.state = "failed", !.act = 0, !.outcome = NoOutcome]
    ELSE Retried(task, DefaultRetryDelay)

-----------------------------------------------------------------------------
(***************************************************************************)
(* sync_stream: error classification and the custom retry.                 *)
(***************************************************************************)
non_retryable_errors ==
    {"ProgrammingError", "UndefinedColumn", "AuthenticationError",
     "PermissionError", "Unauthorized"}

\* f"{type(e).__name__}: {str(e)}", as the sequence of its words.
error_message(e) == <<e.type>> \o e.text

\* `marker in message`
Contains(msg, marker) == \E i \in 1..Len(msg) : msg[i] = marker

should_retry(msg) == ~ \E m \in non_retryable_errors : Contains(msg, m)

Countdown(retries) == BackoffBase * (2 ^ retries)

\* Lines 321-328 followed by the autoretry wrapper: self.retry raises Retry,
\* which the wrapper lets through; a bare `raise` reaches the wrapper.
AfterHandler(task, msg) ==
    LET logged == [task EXCEPT !.terminal_seen = @ \/ ~ should_retry(msg)] IN
    IF should_retry(msg) /\ task.retries < max_retries
    THEN Retried(logged, Countdown(task.retries))
    ELSE AutoRetry(logged)

\* An exception raised inside the except block itself (the handler's own
\* UPDATE failing) leaves the task body before line 322.
HandlerRaised(task, msg) ==
    AutoRetry([task EXCEPT !.terminal_seen = @ \/ ~ should_retry(msg)])

-----------------------------------------------------------------------------
(***************************************************************************)
(* sync_stream, one execution in three steps: SyncStart (load, skip tests, *)
(* dispatch, open the activity), SyncRun (credentials and the connector's  *)
(* run()), SyncFinish (the closing transaction or the except block, then   *)
(* the retry decision).                                                    *)
(***************************************************************************)
\* A dispatch that finds a sync class for every stream, push-only or not.
get_sync_class_for_any(cfg) ==
    "sync_class"

\* SourceRegistry.get_sync_class: ValueError for a push-only stream.
get_sync_class(cfg) ==
    IF cfg.ingestion_type = "push" THEN "not_applicable" ELSE "sync_class"

\* Lines 123-136: the reason the execution is skipped for, or NULL.
SkipReason(task, cfg) ==
    IF cfg.platform = "device" /\ ~ task.manual THEN "device_source"
    ELSE IF cfg.status # "active" /\ ~ task.manual THEN "stream_inactive"
    ELSE IF get_sync_class(cfg) = "not_applicable" THEN "push_only"
    ELSE NULL

Owner(kind, id, n) == <<kind, id, n>>

\* Lines 98-161.
StartSync(d, t, task) ==
    LET cfg == d.stream_configs[d.streams[task.stream].stream_config_id] IN
    IF SkipReason(task, cfg) # NULL
    THEN [db |-> d, task |-> [task EXCEPT !.state = "skipped"]]
    ELSE LET d2 == InsertActivity(d, "ingestion", task.stream,
                                  Owner("sync", t, task.retries), "running")
         IN  [db |-> d2,
              task |-> [task EXCEPT !.state = "started", !.act = Len(d2.activities)]]

SyncErrors ==
    { [type |-> "HTTPStatusError", text |-> <<"401", "Unauthorized">>],
      [type |-> "PermissionError", text |-> <<"denied">>],
      [type |-> "ConnectTimeout", text |-> <<"timed", "out">>] }

NoCredentials == [type |-> "ValueError", text |-> <<"No", "authenticated", "source">>]
SoftTimeLimit == [type |-> "SoftTimeLimitExceeded", text |-> <<>>]
NotSerializable == [type |-> "TypeError", text |-> <<"not", "JSON", "serializable">>]

Raised(e) ==
    [kind |-> "raised", msg |-> error_message(e), token |-> NULL, encodable |-> TRUE,
     tx |-> FALSE]
Returned(token, enc) ==
    [kind |-> "returned", msg |-> <<>>, token |-> token, encodable |-> enc, tx |-> FALSE]

\* Lines 164-187: an oauth2 stream needs an active source row holding a token.
HasCredentials(cfg, src) ==
    cfg.auth_type # "oauth2" \/ (src.status = "active" /\ src.oauth_access_token # NULL)

\* The session begins a transaction with the first statement it is given
\* after a commit (sessionmaker defaults, storage/database.py lines 76-84).
\* After the commit of line 161 the only statement before run() is the
\* SELECT of the credentials, lines 167-180, sent for an oauth2 stream.
autobegin(cfg) == cfg.auth_type = "oauth2"

\* Lines 163-216: the credentials are read and run() is called; tx tells
\* whether a transaction of the session was open while run() executed.
RunWith(cfg, src, o) ==
    IF HasCredentials(cfg, src) THEN [o EXCEPT !.tx = autobegin(cfg)]
    ELSE Raised(NoCredentials)

\* What run() may do: raise, or return stats (with or without a
\* next_sync_token, JSON-encodable or not).
RunOutcomes ==
    {Raised(e) : e \in SyncErrors}
      \cup {Returned(tok, enc) : tok \in SyncTokens \cup {NULL}, enc \in BOOLEAN}

\* Where the closing section (lines 218-273) may be interrupted: statement 1
\* is the UPDATE of stream_configs, 2 the UPDATE of streams, 3 the UPDATE of
\* pipeline_activities, 4 the commit.  "db": that statement raises a database
\* error.  "py": a Python exception is raised before that statement is sent
\* (the soft time limit; json.dumps of the stats for statement 3).
DbErrors ==
    { [type |-> "OperationalError", text |-> <<"server", "closed", "the", "connection">>],
      [type |-> "ProgrammingError", text |-> <<"column", "does", "not", "exist">>] }

Faults ==
    {[kind |-> "none", at |-> 0, err |-> SoftTimeLimit]}
      \cup {[kind |-> "db", at |-> k, err |-> e] : k \in 1..4, e \in DbErrors}
      \cup {[kind |-> "py", at |-> k, err |-> SoftTimeLimit] : k \in 2..4}

\* The session's working copy just before statement k of the closing section.
TxBefore(d, task, k, t_now) ==
    LET c  == d.streams[task.stream].stream_config_id
        s1 == UpdateLastIngestion(d, c, t_now)
        s2 == IF task.outcome.token # NULL
              THEN UpdateSyncCursor(s1, task.stream, task.outcome.token, t_now)
              ELSE s1
        s3 == UpdateActivityStatus(s2, task.act, "completed", <<>>)
    IN  IF k <= 1 THEN d ELSE IF k = 2 THEN s1 ELSE IF k = 3 THEN s2 ELSE s3

\* The except block, lines 283-319: UPDATE ... 'failed' and db.commit() on the
\* same session, so whatever the session holds uncommitted is committed too.
FailureHandler(tx, task, msg) ==
    UpdateActivityStatus(tx, task.act, "failed", msg)

\* json.dumps(json_serializable(stats)) raises while the parameters of
\* statement 3 are built, unless something interrupts the section earlier.
EffectiveFault(task, f) ==
    IF ~ task.outcome.encodable /\ (f.kind = "none" \/ f.at > 3)
    THEN [kind |-> "py", at |-> 3, err |-> NotSerializable]
    ELSE f

\* Lines 218-331 for a started execution whose run() has ended.
FinishSync(d, task, fault, t_now) ==
    LET f == EffectiveFault(task, fault) IN
    IF task.outcome.kind = "raised"
    THEN [db |-> FailureHandler(d, task, task.outcome.msg),
          task |-> AfterHandler(task, task.outcome.msg)]
    ELSE IF f.kind = "none"
    THEN [db |-> TxBefore(d, task, 5, t_now),
          task |-> [task EXCEPT !.state = "success", !.outcome = NoOutcome]]
    ELSE IF f.kind = "db"
    THEN \* PostgreSQL has aborted the transaction (or the commit failed): the
         \* handler's own UPDATE raises, and db.close() rolls back.
         [db |-> d, task |-> HandlerRaised(task, error_message(f.err))]
    ELSE [db |-> FailureHandler(TxBefore(d, task, f.at, t_now), task, error_message(f.err)),
          task |-> AfterHandler(task, error_message(f.err))]

SetDb(d) ==
    /\ streams' = d.streams
    /\ stream_configs' = d.stream_configs
    /\ activities' = d.activities

\* sync_stream.delay(stream_id, manual): the one message whose life the
\* task specification follows (sent with manual=False by the probe, with
\* manual=True by an operator).
Trigger(s, m) ==
    /\ FreeTasks(tasks) = TaskIds
    /\ tasks' = Enqueue(tasks, NewTask("sync_stream", s, m, 0, 0))
    /\ UNCHANGED <<now, streams, stream_configs, sources, activities, probe, req, cron, auth, conn>>

SyncStart(t) ==
    /\ tasks[t].name = "sync_stream"
    /\ tasks[t].state = "queued"
    /\ LET r == StartSync(Committed, t, tasks[t]) IN
        /\ SetDb(r.db)
        /\ tasks' = [tasks EXCEPT ![t] = r.task]
    /\ UNCHANGED <<now, sources, probe, req, cron, auth, conn>>

SyncRun(t) ==
    /\ tasks[t].name = "sync_stream"
    /\ tasks[t].state = "started"
    /\ LET st  == streams[tasks[t].stream]
           cfg == stream_configs[st.stream_config_id]
       IN  \E o \in RunOutcomes :
             tasks' = [tasks EXCEPT ![t].state = "ran",
                         ![t].outcome = RunWith(cfg, sources[st.source_id], o)]
    /\ UNCHANGED <<now, streams, stream_configs, sources, activities, probe, req, cron, auth, conn>>

SyncFinish(t) ==
    /\ tasks[t].name = "sync_stream"
    /\ tasks[t].state = "ran"
    /\ \E f \in Faults :
        LET r == FinishSync(Committed, tasks[t], f, now) IN
        /\ SetDb(r.db)
        /\ tasks' = [tasks EXCEPT ![t] = r.task]
    /\ UNCHANGED <<now, sources, probe, req, cron, auth, conn>>

-----------------------------------------------------------------------------
(***************************************************************************)
(* check_scheduled_syncs, the beat task: ProbeStart opens the activity,    *)
(* ProbeFinish selects, tests, enqueues and closes it.                     *)
(***************************************************************************)
\* The WHERE clause of lines 44-57.
ProbeSelects(st, cfg, src) ==
    /\ src.status = "active"
    /\ cfg.status = "active"
    /\ cfg.ingestion_type = "pull"
    /\ cfg.cron_schedule # NULL
    /\ cfg.platform = "cloud"

ProbeQuery(d, srcs) ==
    {s \in StreamIds :
        ProbeSelects(d.streams[s], d.stream_configs[d.streams[s].stream_config_id],
                     srcs[d.streams[s].source_id])}

\* The rows of the result, here in the order of their ids.
RECURSIVE RowsOf(_)
RowsOf(S) ==
    IF S = {} THEN <<>>
    ELSE LET s == CHOOSE x \in S : \A y \in S : x = "s1" \/ y # "s1"
         IN  <<s>> \o RowsOf(S \ {s})

\* Lines 60-80.  failAt = k > 0: the broker refuses the k-th sync_stream.delay
\* of this probe, which raises out of the loop.
RECURSIVE ProbeLoop(_, _, _, _, _, _)
ProbeLoop(d, rows, i, failAt, t_now, triggered) ==
    IF i > Len(rows)
    THEN [raised |-> FALSE, triggered |-> triggered, examined |-> i - 1]
    ELSE LET cfg == d.stream_configs[d.streams[rows[i]].stream_config_id] IN
         IF should_sync(cfg.cron_schedule, cfg.last_ingestion_at, t_now)
         THEN IF Len(triggered) + 1 = failAt
              THEN [raised |-> TRUE, triggered |-> triggered, examined |-> i]
              ELSE ProbeLoop(d, rows, i + 1, failAt, t_now, Append(triggered, rows[i]))
         ELSE ProbeLoop(d, rows, i + 1, failAt, t_now, triggered)

\* A closing step that reports every examined stream as triggered.
CloseProbeCountingRows(d, act, rows, r) ==
    IF r.raised
    THEN UpdateActivityStatus(d, act, "failed", <<"OperationalError">>)
    ELSE [UpdateActivityStatus(d, act, "completed", <<>>)
            EXCEPT !.activities[act].streams_checked = Len(rows),
                   !.activities[act].streams_triggered = Len(rows)]

\* Lines 82-105 (completed, with the counts) and 112-132 (failed).
CloseProbe(d, act, rows, r) ==
    IF r.raised
    THEN UpdateActivityStatus(d, act, "failed", <<"OperationalError">>)
    ELSE [UpdateActivityStatus(d, act, "completed", <<>>)
            EXCEPT !.activities[act].streams_checked = Len(rows),
                   !.activities[act].streams_triggered = Len(r.triggered)]

\* Lines 21-39.
OpenProbe(d, n) == InsertActivity(d, "scheduled_check", NULL, Owner("probe", n, 0), "running")

ProbeStart ==
    /\ probe.state = "idle"
    /\ probe.count < MaxProbes
    /\ Len(activities) < MaxActivities
    /\ LET d == OpenProbe(Committed, probe.count + 1) IN
        /\ SetDb(d)
        /\ probe' = [probe EXCEPT !.state = "running", !.count = @ + 1,
                                  !.act = Len(d.activities), !.examined = 0]
    /\ UNCHANGED <<now, sources, tasks, req, cron, auth, conn>>

ProbeFinish ==
    /\ probe.state = "running"
    /\ \E failAt \in 0..Cardinality(StreamIds) :
        LET rows == RowsOf(ProbeQuery(Committed, sources))
            r == ProbeLoop(Committed, rows, 1, failAt, now, <<>>)
        IN
        /\ Len(r.triggered) <= Cardinality(FreeTasks(tasks))
        /\ SetDb(CloseProbe(Committed, probe.act, rows, r))
        /\ tasks' = EnqueueAll(tasks, r.triggered, probe.count)
        /\ probe' = [probe EXCEPT !.state = "idle", !.examined = r.examined]
    /\ UNCHANGED <<now, sources, req, cron, auth, conn>>

Tick ==
    /\ now < MaxTicks * TickSeconds
    /\ now' = now + TickSeconds
    /\ UNCHANGED <<streams, stream_configs, sources, activities, tasks, probe, req, cron, auth, conn>>

Init ==
    /\ SyncInit
    /\ req = IdleReq
    /\ cron = IdleCron
    /\ auth = IdleAuth
    /\ conn = IdleConn

\* The life of one sync_stream message, step by step.
Next ==
    \/ \E s \in StreamIds, m \in BOOLEAN : Trigger(s, m)
    \/ \E t \in TaskIds : SyncStart(t)
    \/ \E t \in TaskIds : SyncRun(t)
    \/ \E t \in TaskIds : SyncFinish(t)

Spec == Init /\ [][Next]_vars

-----------------------------------------------------------------------------
(***************************************************************************)
(* Properties of one task's life (specification Spec).                     *)
(***************************************************************************)
IsSync(t) == tasks[t].name = "sync_stream"

\* The execution (task t, attempt r) has ended: the task was re-sent with a
\* higher retry count, or it has reached a final state.
ExecutionEnded(owner) ==
    \/ tasks[owner[2]].retries > owner[3]
    \/ tasks[owner[2]].state \in {"success", "failed", "skipped"}

IngestionRows == {i \in 1..Len(activities) : activities[i].activity_type = "ingestion"}

\* C1: an execution of sync_stream that closes its ingestion activity as
\* failed leaves the stream's persisted sync cursor and last-successful-
\* ingestion timestamp as they were, and the two change only in a step that
\* closes an ingestion activity of that stream as completed.
C1_FailedExecutionKeepsCursor ==
    [][\A s \in StreamIds :
        LET c == streams[s].stream_config_id
            changed == \/ streams'[s].sync_cursor # streams[s].sync_cursor
                       \/ stream_configs'[c].last_ingestion_at # stream_configs[c].last_ingestion_at
            closes(st) == \E i \in IngestionRows :
                            /\ activities[i].stream_id = s
                            /\ activities[i].status = "running"
                            /\ activities'[i].status = st
        IN  /\ closes("failed") => ~ changed
            /\ changed => closes("completed")]_vars

\* C2: once an execution has failed with an error whose message contains a
\* terminal marker, the task is not sent again: it is in its final failed
\* state.
C2_TerminalErrorNeverRetried ==
    \A t \in TaskIds : (IsSync(t) /\ tasks[t].terminal_seen) => tasks[t].state = "failed"

ExpectedDelays == <<BackoffBase, BackoffBase * 2, BackoffBase * 4>>

\* C3: while every execution of a task has failed with an error that matches
\* no terminal marker, its retries were scheduled with delays 60, 120, 240
\* in that order, and when it stops it has been re-sent exactly 3 times.
C3_BackoffSchedule ==
    \A t \in TaskIds :
        (IsSync(t) /\ ~ tasks[t].terminal_seen /\ tasks[t].state \in {"queued", "failed"}) =>
            /\ Len(tasks[t].delays) <= 3
            /\ tasks[t].delays = SubSeq(ExpectedDelays, 1, Len(tasks[t].delays))
            /\ tasks[t].state = "failed" => tasks[t].retries = 3

\* C5: every ingestion activity opened by an execution that has ended is
\* closed, as completed or as failed.
C5_ActivityClosedAtEnd ==
    \A i \in IngestionRows :
        ExecutionEnded(activities[i].owner) =>
            activities[i].status \in {"completed", "failed"}

IsPush(s) == stream_configs[streams[s].stream_config_id].ingestion_type = "push"

\* C9: a sync_stream message for a push-only stream is skipped when it runs:
\* it opens no activity, records no failure, is not re-sent, and the
\* stream's cursor and timestamps stay as they were.
C9_PushOnlySkipped ==
    \A t \in TaskIds :
        (IsSync(t) /\ IsPush(tasks[t].stream)) =>
            /\ tasks[t].state \in {"queued", "skipped"}
            /\ tasks[t].retries = 0
            /\ tasks[t].delays = <<>>
            /\ \A i \in 1..Len(activities) : activities[i].stream_id # tasks[t].stream
            /\ streams[tasks[t].stream].sync_cursor = NULL
            /\ streams[tasks[t].stream].last_sync_at = NoTime
            /\ stream_configs[streams[tasks[t].stream].stream_config_id].last_ingestion_at = NoTime

C9_Witness ==
    \E t \in TaskIds :
        IsSync(t) /\ IsPush(tasks[t].stream) /\ tasks[t].state = "skipped" /\ tasks[t].manual

-----------------------------------------------------------------------------
(***************************************************************************)
(* The scheduler with its worker: probes, the clock, and sync_stream       *)
(* executions run to their end in one step each.                           *)
(***************************************************************************)
ExecuteSync(d, srcs, t, task, o, f, t_now) ==
    LET a == StartSync(d, t, task) IN
    IF a.task.state = "skipped" THEN a
    ELSE LET st  == d.streams[task.stream]
             cfg == d.stream_configs[st.stream_config_id]
             ran == [a.task EXCEPT !.state = "ran",
                        !.outcome = RunWith(cfg, srcs[st.source_id], o)]
         IN  FinishSync(a.db, ran, f, t_now)

SyncExecute(t) ==
    /\ tasks[t].name = "sync_stream"
    /\ tasks[t].state = "queued"
    /\ Len(activities) < MaxActivities
    /\ \E o \in RunOutcomes, f \in Faults :
        LET r == ExecuteSync(Committed, sources, t, tasks[t], o, f, now) IN
        /\ SetDb(r.db)
        /\ tasks' = [tasks EXCEPT ![t] = r.task]
    /\ UNCHANGED <<now, sources, probe, req, cron, auth, conn>>

NextSched ==
    \/ \E t \in TaskIds : SyncExecute(t)
    \/ ProbeStart
    \/ ProbeFinish
    \/ Tick

SpecSched == Init /\ [][NextSched]_vars

-----------------------------------------------------------------------------
(***************************************************************************)
(* Properties of the scheduler (specification SpecSched).                  *)
(***************************************************************************)
ScheduledChecks == {i \in 1..Len(activities) : activities[i].activity_type = "scheduled_check"}

\* C6: every sync task the probe has enqueued is for a stream that is
\* enabled, whose source is active, and whose configuration is a pull
\* configuration of a cloud platform with a cron schedule.
C6_ProbeEnqueuesEligibleOnly ==
    \A t \in TaskIds :
        tasks[t].origin > 0 =>
            LET st == streams[tasks[t].stream]
                cfg == stream_configs[st.stream_config_id]
            IN  /\ st.enabled
                /\ sources[st.source_id].status = "active"
                /\ cfg.ingestion_type = "pull"
                /\ cfg.cron_schedule # NULL
                /\ cfg.platform = "cloud"

\* C8: the probes that have started have written one scheduled_check
\* activity each, and a probe that closes its activity as completed records
\* in it the number of streams it examined and the number of sync tasks it
\* enqueued.
C8_ProbeLedger ==
    /\ [](/\ Cardinality(ScheduledChecks) = probe.count
          /\ \A n \in 1..probe.count :
                Cardinality({i \in ScheduledChecks :
                                activities[i].owner = Owner("probe", n, 0)}) = 1)
    /\ [][(/\ probe.state = "running"
           /\ probe'.state = "idle"
           /\ activities'[probe.act].status = "completed") =>
             /\ activities'[probe.act].streams_checked = probe'.examined
             /\ activities'[probe.act].streams_triggered =
                   Cardinality({t \in TaskIds : tasks[t].state = "none" /\ tasks'[t].state = "queued"})]_vars

C8_Witness ==
    \E i \in ScheduledChecks :
        /\ activities[i].status = "completed"
        /\ activities[i].streams_checked = 2
        /\ activities[i].streams_triggered = 1
        /\ probe.state = "idle"
        /\ probe.examined = 2

-----------------------------------------------------------------------------
(***************************************************************************)
(* should_sync on its own (specification SpecCron): a half-hourly stream   *)
(* last synced at cron.T, tested 31 minutes and 10 minutes later.          *)
(***************************************************************************)
StartSeconds == {0, 30}
LateOffset == 31 * 60
EarlyOffset == 10 * 60

InitCron ==
    /\ now = 0
    /\ \E m \in 0..MaxStartMinute, sec \in StartSeconds :
        /\ stream_configs = ConfigRows([s \in StreamIds |-> GoodProfile], 60 * m + sec)
        /\ cron = [pc |-> "ready", T |-> 60 * m + sec, late |-> "unset", early |-> "unset"]
    /\ streams = StreamRows([s \in StreamIds |-> GoodProfile])
    /\ sources = SourceRows([s \in StreamIds |-> GoodProfile])
    /\ activities = <<>>
    /\ tasks = [t \in TaskIds |-> NoTask]
    /\ probe = [state |-> "idle", count |-> 0, act |-> 0, examined |-> 0]
    /\ req = IdleReq
    /\ auth = IdleAuth
    /\ conn = IdleConn

\* The probe's test of line 62 for stream s at time t.
Due(s, t) ==
    LET cfg == stream_configs[streams[s].stream_config_id] IN
    IF should_sync(cfg.cron_schedule, cfg.last_ingestion_at, t) THEN "due" ELSE "not_due"

EvaluateLate ==
    /\ cron.pc = "ready"
    /\ cron.late = "unset"
    /\ now' = cron.T + LateOffset
    /\ cron' = [cron EXCEPT !.late = Due("s1", now')]
    /\ UNCHANGED <<streams, stream_configs, sources, activities, tasks, probe, req, auth, conn>>

EvaluateEarly ==
    /\ cron.pc = "ready"
    /\ cron.early = "unset"
    /\ now' = cron.T + EarlyOffset
    /\ cron' = [cron EXCEPT !.early = Due("s1", now')]
    /\ UNCHANGED <<streams, stream_configs, sources, activities, tasks, probe, req, auth, conn>>

NextCron ==
    \/ EvaluateLate
    \/ EvaluateEarly

SpecCron == InitCron /\ [][NextCron]_vars

\* C7 as stated: for every last-success time T the half-hourly stream is due
\* at T + 31 minutes and not due at T + 10 minutes.
C7_DueAt31NotAt10 ==
    cron.pc = "ready" =>
        /\ cron.late # "not_due"
        /\ cron.early # "due"

\* C7: for every last-success time T the half-hourly stream is due at
\* T + 31 minutes; at T + 10 minutes it is due exactly when a half-hour mark
\* of the clock lies in (T, T + 10 minutes], that is when T's minute of the
\* hour, modulo 30, is 20 or more.
C7_DueAt31AndAt10OnlyAcrossMark ==
    cron.pc = "ready" =>
        /\ cron.late # "not_due"
        /\ cron.early = "due" => ((cron.T \div 60) % 30) >= 20
        /\ cron.early = "not_due" => ((cron.T \div 60) % 30) < 20

C7_Witness ==
    /\ cron.pc = "ready"
    /\ cron.late = "due"
    /\ cron.early = "due"
    /\ cron.T = 60 * 25 + 30

-----------------------------------------------------------------------------
(***************************************************************************)
(* One outbound request (specification SpecHttp), through                  *)
(* BaseAPIClient._make_request/_execute_request or GmailClient             *)
(* ._make_request.  req.refreshes counts calls of the token refresher,     *)
(* req.retries_401 the re-sends that follow a refresh, req.sends every     *)
(* request put on the wire.                                                *)
(***************************************************************************)
MAX_RETRIES == 3
RETRY_STATUS_CODES == {429, 500, 502, 503, 504}
Statuses == {200, 401, 404, 429, 503}
Clients == {"base", "gmail"}
RefreshOutcomes == {"token", "none", "raise"}

NewReq(client, refresher) ==
    [pc |-> "send", client |-> client, token_refresher |-> refresher,
     retry_on_401 |-> TRUE, retry_count |-> 0, attempt |-> 1,
     access_token |-> "at0", status |-> 0,
     refreshes |-> 0, retries_401 |-> 0, sends |-> 0,
     refreshed_after_retry |-> FALSE, result |-> "none",
     waits |-> <<>>, only_transient |-> TRUE]

InitHttp ==
    /\ now = 0
    /\ streams = StreamRows([s \in StreamIds |-> GoodProfile])
    /\ stream_configs = ConfigRows([s \in StreamIds |-> GoodProfile], NoTime)
    /\ sources = SourceRows([s \in StreamIds |-> GoodProfile])
    /\ activities = <<>>
    /\ tasks = [t \in TaskIds |-> NoTask]
    /\ probe = [state |-> "idle", count |-> 0, act |-> 0, examined |-> 0]
    /\ cron = IdleCron
    /\ auth = IdleAuth
    /\ conn = IdleConn
    /\ \E c \in Clients, f \in BOOLEAN : req = NewReq(c, f)

\* raise_for_status (base.py line 265, gmail/client.py lines 45 and 62).
ResultOf(status) ==
    IF status = 200 THEN "ok"
    ELSE IF status = 401 THEN "error_401"
    ELSE "error"

\* A re-send with retry_on_401 left on.
ExecuteRetryAgain(r) ==
    [r EXCEPT !.pc = "send", !.retry_on_401 = TRUE, !.retry_count = 0,
              !.retries_401 = @ + 1]

\* base.py lines 203-206: the recursive call after a refresh.
ExecuteRetry(r) ==
    [r EXCEPT !.pc = "send", !.retry_on_401 = FALSE, !.retry_count = 0,
              !.retries_401 = @ + 1]

\* base.py line 211: wait_time = 2 ** retry_count.
wait_time(retry_count) == 2 ^ retry_count

\* A transient retry that is still taken when retry_count equals MAX_RETRIES.
AfterUnauthorizedOnceMore(r) ==
    IF r.status \in RETRY_STATUS_CODES /\ r.retry_count <= MAX_RETRIES
    THEN [r EXCEPT !.pc = "send", !.retry_count = @ + 1,
                   !.waits = Append(@, wait_time(r.retry_count))]
    ELSE [r EXCEPT !.pc = "done", !.result = ResultOf(r.status)]

\* base.py lines 209-219: the transient retry after its sleep, or the
\* response is returned.
AfterUnauthorized(r) ==
    IF r.status \in RETRY_STATUS_CODES /\ r.retry_count < MAX_RETRIES
    THEN [r EXCEPT !.pc = "send", !.retry_count = @ + 1,
                   !.waits = Append(@, wait_time(r.retry_count))]
    ELSE [r EXCEPT !.pc = "done", !.result = ResultOf(r.status)]

\* base.py lines 186-219, one invocation of _execute_request up to its
\* first await after the response.
BaseResponse(r, status) ==
    LET r1 == [r EXCEPT !.status = status, !.sends = @ + 1,
                        !.only_transient = @ /\ status \in RETRY_STATUS_CODES] IN
    IF status = 401 /\ r.retry_on_401 /\ r.token_refresher
    THEN [r1 EXCEPT !.pc = "refresh"]
    ELSE AfterUnauthorized(r1)

\* base.py lines 197-208.
BaseRefreshed(r, outcome) ==
    LET r1 == [r EXCEPT !.refreshes = @ + 1,
                        !.refreshed_after_retry = @ \/ r.retries_401 > 0] IN
    IF outcome = "token"
    THEN ExecuteRetry([r1 EXCEPT !.access_token = "at1"])
    ELSE AfterUnauthorized(r1)

\* gmail/client.py lines 36-67.
GmailResponse(r, status) ==
    LET r1 == [r EXCEPT !.status = status, !.sends = @ + 1,
                        !.only_transient = @ /\ status \in RETRY_STATUS_CODES] IN
    IF r.attempt = 1 /\ status = 401 /\ r.token_refresher
    THEN [r1 EXCEPT !.pc = "refresh"]
    ELSE [r1 EXCEPT !.pc = "done", !.result = ResultOf(status)]

\* gmail/client.py lines 50-54: the refresher's exception is not caught, and
\* whatever it returns becomes the token of the one re-send.
GmailRefreshed(r, outcome) ==
    LET r1 == [r EXCEPT !.refreshes = @ + 1,
                        !.refreshed_after_retry = @ \/ r.retries_401 > 0] IN
    IF outcome = "raise"
    THEN [r1 EXCEPT !.pc = "done", !.result = "refresh_error"]
    ELSE [r1 EXCEPT !.pc = "send", !.attempt = 2, !.retries_401 = @ + 1,
                    !.access_token = IF outcome = "token" THEN "at1" ELSE NULL]

HttpResponse(status) ==
    /\ req.pc = "send"
    /\ req' = IF req.client = "base" THEN BaseResponse(req, status)
              ELSE GmailResponse(req, status)
    /\ UNCHANGED <<now, streams, stream_configs, sources, activities, tasks, probe, cron, auth, conn>>

HttpRefresh(outcome) ==
    /\ req.pc = "refresh"
    /\ req' = IF req.client = "base" THEN BaseRefreshed(req, outcome)
              ELSE GmailRefreshed(req, outcome)
    /\ UNCHANGED <<now, streams, stream_configs, sources, activities, tasks, probe, cron, auth, conn>>

NextHttp ==
    \/ \E status \in Statuses : HttpResponse(status)
    \/ \E outcome \in RefreshOutcomes : HttpRefresh(outcome)

SpecHttp == InitHttp /\ [][NextHttp]_vars

\* C10: for one outbound request the token refresher is called at most once
\* and the request is re-sent for a 401 at most once, only after a refresh;
\* a refresh that yields a token is followed by exactly one such re-send; if
\* the re-sent request is answered 401 the refresher is not called again and
\* the caller gets the 401 as an error.
C10_OneRefreshOneRetry ==
    /\ [](req.pc # "off" =>
          /\ req.refreshes <= 1
          /\ req.retries_401 <= req.refreshes
          /\ ~ req.refreshed_after_retry
          /\ (req.pc \in {"send", "done"} /\ req.access_token = "at1") => req.retries_401 = 1
          /\ (req.retries_401 = 1 /\ req.status = 401 /\ req.pc # "send") =>
                (req.pc = "done" /\ req.result = "error_401"))
    /\ [][(req.pc = "send" /\ req.retries_401 = 1 /\ req'.status = 401 /\ req'.sends > req.sends) =>
            (req'.pc = "done" /\ req'.result = "error_401" /\ req'.refreshes = req.refreshes)]_vars

C10_Witness ==
    /\ req.pc = "done"
    /\ req.client = "base"
    /\ req.refreshes = 1
    /\ req.retries_401 = 1
    /\ req.status = 401
    /\ req.result = "error_401"
    /\ req.sends = 2

-----------------------------------------------------------------------------
(***************************************************************************)
(* The processing tasks and the ledger (specification SpecLedger).         *)
(* process_stream_data closes the activity whose id it is given;           *)
(* process_stream_batch opens and closes a signal_creation activity of its *)
(* own.  Both are declared with autoretry_for=(Exception,), max_retries 3. *)
(***************************************************************************)
InitLedger ==
    /\ now = 0
    /\ streams = StreamRows([s \in StreamIds |-> GoodProfile])
    /\ stream_configs = ConfigRows([s \in StreamIds |-> GoodProfile], NoTime)
    /\ sources = SourceRows([s \in StreamIds |-> GoodProfile])
    /\ activities = <<>>
    /\ tasks = [t \in TaskIds |-> NoTask]
    /\ probe = [state |-> "idle", count |-> 0, act |-> 0, examined |-> 0]
    /\ req = IdleReq
    /\ cron = IdleCron
    /\ auth = IdleAuth
    /\ conn = IdleConn

ProcessingOutcomes == {"processed", "raised", "db_error"}
ProcessingError == [type |-> "ValueError", text |-> <<"Source", "not", "found">>]

\* UPDATE stream_configs ... WHERE id = :stream_id, with whatever id it is given.
UpdateLastIngestionWhere(d, id, t) ==
    IF id \in DOMAIN d.stream_configs THEN UpdateLastIngestion(d, id, t) ELSE d

\* UPDATE streams SET last_sync_at ... WHERE id = :stream_id.
UpdateLastSync(d, s, t) ==
    [d EXCEPT !.streams[s].last_sync_at = t]

\* process_stream_data, lines 361-469.
ProcessData(d, task, outcome, t_now) ==
    IF outcome = "processed"
    THEN [db |-> UpdateLastSync(UpdateActivityStatus(d, task.activity_id, "completed", <<>>),
                                task.stream, t_now),
          task |-> [task EXCEPT !.state = "success"]]
    ELSE IF outcome = "raised"
    THEN [db |-> UpdateActivityStatus(d, task.activity_id, "failed", error_message(ProcessingError)),
          task |-> AutoRetry(task)]
    ELSE [db |-> d, task |-> AutoRetry(task)]

\* process_stream_batch, lines 204-251: the activity of this execution.
StartBatch(d, t, task) ==
    LET d1 == InsertActivity(d, "signal_creation", task.stream,
                             Owner("batch", t, task.retries), "running")
    IN  [db |-> d1, task |-> [task EXCEPT !.state = "started", !.act = Len(d1.activities)]]

\* process_stream_generic takes five positional parameters (lines 123-129)
\* and process_stream_batch calls it with four (line 262): the call raises
\* TypeError before a processor is loaded.
GenericParameters == 5
BatchCallArguments == 4

process_stream_generic(arguments, outcome) ==
    IF arguments # GenericParameters /\ outcome = "processed" THEN "raised" ELSE outcome

\* process_stream_batch, lines 253-331; task.act is signal_creation_id.
FinishBatch(d, task, outcome, t_now) ==
    IF process_stream_generic(BatchCallArguments, outcome) = "processed"
    THEN [db |-> UpdateLastIngestionWhere(
                    UpdateActivityStatus(d, task.act, "completed", <<>>),
                    task.stream, t_now),
          task |-> [task EXCEPT !.state = "success", !.act = 0]]
    ELSE IF process_stream_generic(BatchCallArguments, outcome) = "raised"
    THEN [db |-> UpdateActivityStatus(d, task.act, "failed", error_message(ProcessingError)),
          task |-> AutoRetry(task)]
    ELSE [db |-> d, task |-> AutoRetry(task)]

\* The caller process_stream_data is written for (its docstring: "receives
\* data directly from the ingestion endpoint", "pipeline_activity_id: ID of
\* the pipeline activity from ingestion"): the activity row exists when the
\* task is sent.
Ingest(s) ==
    /\ FreeTasks(tasks) # {}
    /\ Len(activities) < MaxActivities
    /\ LET d == InsertActivity(Committed, "ingestion", s, Owner("endpoint", 0, 0), "running") IN
        /\ SetDb(d)
        /\ tasks' = Enqueue(tasks, NewTask("process_stream_data", s, FALSE, 0, Len(d.activities)))
    /\ UNCHANGED <<now, sources, probe, req, cron, auth, conn>>

\* The connectors' send_task('process_stream_data', ...) with a fresh uuid4
\* for which no row is inserted (id 0 here: no such row).
SendProcessing(s) ==
    /\ FreeTasks(tasks) # {}
    /\ tasks' = Enqueue(tasks, NewTask("process_stream_data", s, FALSE, 0, 0))
    /\ UNCHANGED <<now, streams, stream_configs, sources, activities, probe, req, cron, auth, conn>>

\* scripts/manual_process_stream.py: send_task('process_stream_batch', ...).
SubmitBatch(s) ==
    /\ FreeTasks(tasks) # {}
    /\ tasks' = Enqueue(tasks, NewTask("process_stream_batch", s, TRUE, 0, 0))
    /\ UNCHANGED <<now, streams, stream_configs, sources, activities, probe, req, cron, auth, conn>>

ProcessStreamData(t) ==
    /\ tasks[t].name = "process_stream_data"
    /\ tasks[t].state = "queued"
    /\ \E outcome \in ProcessingOutcomes :
        LET r == ProcessData(Committed, tasks[t], outcome, now) IN
        /\ SetDb(r.db)
        /\ tasks' = [tasks EXCEPT ![t] = r.task]
    /\ UNCHANGED <<now, sources, probe, req, cron, auth, conn>>

BatchStart(t) ==
    /\ tasks[t].name = "process_stream_batch"
    /\ tasks[t].state = "queued"
    /\ Len(activities) < MaxActivities
    /\ LET r == StartBatch(Committed, t, tasks[t]) IN
        /\ SetDb(r.db)
        /\ tasks' = [tasks EXCEPT ![t] = r.task]
    /\ UNCHANGED <<now, sources, probe, req, cron, auth, conn>>

BatchFinish(t) ==
    /\ tasks[t].name = "process_stream_batch"
    /\ tasks[t].state = "started"
    /\ \E outcome \in ProcessingOutcomes :
        LET r == FinishBatch(Committed, tasks[t], outcome, now) IN
        /\ SetDb(r.db)
        /\ tasks' = [tasks EXCEPT ![t] = r.task]
    /\ UNCHANGED <<now, sources, probe, req, cron, auth, conn>>

\* maintenance_tasks.py line 171.
days_to_keep == 30

\* DELETE FROM pipeline_activities WHERE activity_type = 'ingestion' AND
\* started_at < :cutoff_date.  Every row of the ledger started at time 0 or
\* later.
DeleteOldRuns(d, cutoff_date) ==
    IF cutoff_date <= 0 THEN d
    ELSE [d EXCEPT !.activities =
             SelectSeq(@, LAMBDA a : a.activity_type # "ingestion")]

\* celery_app.py lines 54-57: beat sends cleanup_old_runs once a day.
BeatCleanup ==
    /\ FreeTasks(tasks) # {}
    /\ \A t \in TaskIds : tasks[t].name # "cleanup_old_runs"
    /\ tasks' = Enqueue(tasks, NewTask("cleanup_old_runs", NULL, FALSE, 0, 0))
    /\ UNCHANGED <<now, streams, stream_configs, sources, activities, probe, req, cron, auth, conn>>

\* maintenance_tasks.py lines 170-197: cleanup_old_runs deletes the old
\* ingestion rows and commits; it writes no row of its own.
CleanupOldRuns(t) ==
    /\ tasks[t].name = "cleanup_old_runs"
    /\ tasks[t].state = "queued"
    /\ SetDb(DeleteOldRuns(Committed, now - days_to_keep * 86400))
    /\ tasks' = [tasks EXCEPT ![t].state = "success"]
    /\ UNCHANGED <<now, sources, probe, req, cron, auth, conn>>

NextLedger ==
    \/ BeatCleanup
    \/ \E t \in TaskIds : CleanupOldRuns(t)
    \/ \E s \in StreamIds : Ingest(s)
    \/ \E s \in StreamIds : SendProcessing(s)
    \/ \E s \in StreamIds : SubmitBatch(s)
    \/ \E t \in TaskIds : ProcessStreamData(t)
    \/ \E t \in TaskIds : BatchStart(t)
    \/ \E t \in TaskIds : BatchFinish(t)

SpecLedger == InitLedger /\ [][NextLedger]_vars

ClosedStatuses == {"completed", "failed", "cancelled"}

\* C4: an activity is running when it is opened, its status changes only
\* from running (or pending) to completed or failed, and the status of an
\* activity that is completed, failed or cancelled is never changed again.
C4_StatusMovesForward ==
    [][/\ \A i \in 1..Len(activities) :
            /\ activities[i].status \in ClosedStatuses =>
                  activities'[i].status = activities[i].status
            /\ activities'[i].status # activities[i].status =>
                  activities'[i].status \in {"completed", "failed"}
       /\ \A i \in (Len(activities) + 1)..Len(activities') :
            activities'[i].status = "running"]_vars

-----------------------------------------------------------------------------
(***************************************************************************)
(* OAuth credentials of the sources (specification SpecTokens): the        *)
(* periodic job refresh_expiring_tokens, and the refresher closure         *)
(* sync_stream hands to a connector (create_token_refresher).  Here a      *)
(* sources row carries source_name, status and the three oauth columns.    *)
(***************************************************************************)
ExpiryWindow == 3600
DefaultExpiresIn == 3600

SourceNameOf(g) == IF g = "g1" THEN "google" ELSE "strava"

TokenRows ==
    [status : {"authenticated", "active", "error"},
     oauth_access_token : {"at0"},
     oauth_refresh_token : {"rt0", NULL},
     oauth_expires_at : {NoTime, 1800, 7200}]

\* dict.get(key) / dict.get(key, default) on a row or a JSON object.
Get(rec, key, default) == IF key \in DOMAIN rec THEN rec[key] ELSE default

\* What the provider's token endpoint may answer to the n-th refresh
\* request: a rejection, or a JSON object with access_token, with or
\* without refresh_token (possibly null) and expires_in.
IssuedAccessToken(n) == <<"at1", "at2", "at3">>[n]
IssuedRefreshToken(n) == <<"rt1", "rt2", "rt3">>[n]

ProviderResponses(n) ==
    {[ok |-> FALSE, body |-> [error |-> "invalid_grant"]]}
      \cup {[ok |-> TRUE, body |-> b] :
              b \in {[access_token |-> IssuedAccessToken(n)],
                     [access_token |-> IssuedAccessToken(n), expires_in |-> 1800],
                     [access_token |-> IssuedAccessToken(n), expires_in |-> 7200,
                      refresh_token |-> IssuedRefreshToken(n)],
                     [access_token |-> IssuedAccessToken(n), expires_in |-> 7200,
                      refresh_token |-> NULL]}}

\* Modules sources.<name>.auth with a refresh function: google resolves to
\* sources.google.calendar.auth.refresh_google_token, the others to nothing.
HasRefreshFunc(source_name) == source_name = "google"

NoRefresher == [made |-> FALSE]

\* Lines 19-110: the closure, or None.  The closure keeps the
\* oauth_credentials dict it was created with.
create_token_refresher(source_name, oauth_credentials, source_config) ==
    IF Get(source_config, "auth_type", NULL) # "oauth2" THEN NoRefresher
    ELSE IF ~ HasRefreshFunc(source_name) THEN NoRefresher
    ELSE [made |-> TRUE, source_name |-> source_name,
          oauth_credentials |-> oauth_credentials]

\* Lines 72-100, the closure's body for a provider answer: the row it
\* writes (UPDATE sources ... WHERE id = :source_id, then db.commit()).
RefreshedRow(row, oauth_credentials, body, t_now) ==
    [row EXCEPT
        !.oauth_access_token = body.access_token,
        !.oauth_refresh_token = Get(body, "refresh_token", oauth_credentials.oauth_refresh_token),
        !.oauth_expires_at = t_now + Get(body, "expires_in", DefaultExpiresIn)]

token_refresher(srcs, refresher, resp, t_now) ==
    IF resp.ok
    THEN [raised |-> FALSE,
          sources |-> [srcs EXCEPT ![refresher.oauth_credentials.source_id] =
                          RefreshedRow(@, refresher.oauth_credentials, resp.body, t_now)]]
    ELSE [raised |-> TRUE, sources |-> srcs]

\* The SELECT of lines 141-152.
JobSelects(src, t_now) ==
    /\ src.oauth_expires_at # NoTime
    /\ src.oauth_expires_at < t_now + ExpiryWindow
    /\ src.oauth_refresh_token # NULL
    /\ src.status \in {"authenticated", "active"}

\* One row of that SELECT, with source_id added (line 166).
JobRow(g, src) ==
    [id |-> g, source_id |-> g, source_name |-> SourceNameOf(g),
     oauth_access_token |-> src.oauth_access_token,
     oauth_refresh_token |-> src.oauth_refresh_token,
     oauth_expires_at |-> src.oauth_expires_at]

\* Lines 158-198 for the rows in `todo`, answers resp[g]; the result is the
\* table and the job's two lists (as counts) plus the requests sent.
RECURSIVE JobLoop(_, _, _, _, _)
JobLoop(srcs, todo, resp, t_now, acc) ==
    IF todo = <<>> THEN [sources |-> srcs, acc |-> acc]
    ELSE LET g == Head(todo)
             row == JobRow(g, srcs[g])
             refresher == create_token_refresher(row.source_name, row, row)
         IN  IF ~ refresher.made
             THEN JobLoop(srcs, Tail(todo), resp, t_now, acc)
             ELSE LET r == token_refresher(srcs, refresher, resp[g], t_now) IN
                  IF r.raised
                  THEN JobLoop(srcs, Tail(todo), resp, t_now,
                               [acc EXCEPT !.failed = @ + 1, !.requests = @ + 1,
                                           !.rejected = @ + 1])
                  ELSE JobLoop(r.sources, Tail(todo), resp, t_now,
                               [acc EXCEPT !.refreshed = @ + 1, !.requests = @ + 1])

RECURSIVE SourceRowsOf(_)
SourceRowsOf(S) ==
    IF S = {} THEN <<>>
    ELSE LET g == CHOOSE x \in S : \A y \in S : x = "g1" \/ y # "g1"
         IN  <<g>> \o SourceRowsOf(S \ {g})

IdleJob ==
    [state |-> "idle", act |-> 0, started_at |-> 0, before |-> <<>>,
     sources_checked |-> 0, refreshed |-> 0, failed |-> 0,
     requests |-> 0, rejected |-> 0, resp |-> <<>>]

InitTokens ==
    /\ now = 0
    /\ streams = StreamRows([s \in StreamIds |-> GoodProfile])
    /\ stream_configs = ConfigRows([s \in StreamIds |-> GoodProfile], NoTime)
    /\ sources \in [SourceIds -> TokenRows]
    /\ activities = <<>>
    /\ tasks = [t \in TaskIds |-> NoTask]
    /\ probe = [state |-> "idle", count |-> 0, act |-> 0, examined |-> 0]
    /\ req = IdleReq
    /\ cron = IdleCron
    /\ auth = [pc |-> "tokens", job |-> IdleJob, refresher |-> NoRefresher, calls |-> 0,
               last |-> [kind |-> "none"]]
    /\ conn = IdleConn

\* Lines 117-135.
RefreshJobStart ==
    /\ auth.pc = "tokens"
    /\ auth.job.state = "idle"
    /\ Len(activities) < MaxActivities
    /\ LET d == InsertActivity(Committed, "token_refresh", NULL, Owner("refresh", 0, 0), "running") IN
        /\ activities' = d.activities
        /\ auth' = [auth EXCEPT !.job = [IdleJob EXCEPT !.state = "running",
                                            !.act = Len(d.activities),
                                            !.started_at = now, !.before = sources]]
    /\ UNCHANGED <<now, streams, stream_configs, sources, tasks, probe, req, cron, conn>>

\* Lines 137-232.
RefreshJobFinish ==
    /\ auth.pc = "tokens"
    /\ auth.job.state = "running"
    /\ \E resp \in [SourceIds -> ProviderResponses(1)] :
        LET rows == SourceRowsOf({g \in SourceIds : JobSelects(sources[g], now)})
            r == JobLoop(sources, rows, resp, now,
                         [refreshed |-> 0, failed |-> 0, requests |-> 0, rejected |-> 0])
        IN
        /\ sources' = r.sources
        /\ activities' = UpdateActivityStatus(Committed, auth.job.act, "completed", <<>>).activities
        /\ auth' = [auth EXCEPT !.job.state = "done",
                                !.job.sources_checked = Len(rows),
                                !.job.refreshed = r.acc.refreshed,
                                !.job.failed = r.acc.failed,
                                !.job.requests = r.acc.requests,
                                !.job.rejected = r.acc.rejected,
                                !.job.resp = resp]
    /\ UNCHANGED <<now, streams, stream_configs, tasks, probe, req, cron, conn>>

\* sync_sources.py lines 166-201: the credentials row sync_stream reads and
\* the refresher it builds from it, with the stream row as source_config.
SyncCredentials(g, src) ==
    [id |-> g, source_id |-> g,
     oauth_access_token |-> src.oauth_access_token,
     oauth_refresh_token |-> src.oauth_refresh_token,
     oauth_expires_at |-> src.oauth_expires_at]

MakeRefresher(g) ==
    /\ auth.pc = "tokens"
    /\ ~ auth.refresher.made
    /\ sources[g].status = "active"
    /\ sources[g].oauth_access_token # NULL
    /\ sources[g].oauth_refresh_token # NULL
    /\ auth' = [auth EXCEPT !.refresher =
                  create_token_refresher(SourceNameOf(g), SyncCredentials(g, sources[g]),
                                         [auth_type |-> "oauth2"]),
                            !.calls = 0]
    /\ auth'.refresher.made
    /\ UNCHANGED <<now, streams, stream_configs, sources, activities, tasks, probe, req, cron, conn>>

\* One call of the closure by a client that was answered 401.
CallRefresher ==
    /\ auth.pc = "tokens"
    /\ auth.refresher.made
    /\ auth.calls < MaxRefreshCalls
    /\ \E resp \in ProviderResponses(auth.calls + 1) :
        LET r == token_refresher(sources, auth.refresher, resp, now)
            g == auth.refresher.oauth_credentials.source_id IN
        /\ sources' = r.sources
        /\ auth' = [auth EXCEPT !.calls = @ + 1,
                      !.last = [kind |-> IF r.raised THEN "raised" ELSE "refreshed",
                                source |-> g, stored_before |-> sources[g],
                                sent |-> auth.refresher.oauth_credentials.oauth_refresh_token,
                                body |-> resp.body]]
    /\ UNCHANGED <<now, streams, stream_configs, activities, tasks, probe, req, cron, conn>>

NextTokens ==
    \/ RefreshJobStart
    \/ RefreshJobFinish
    \/ \E g \in SourceIds : MakeRefresher(g)
    \/ CallRefresher

SpecTokens == InitTokens /\ [][NextTokens]_vars

\* C11: after a run of refresh_expiring_tokens in which the provider
\* rejected no refresh request, every source that was due when the run
\* started (expiry within the hour, a refresh token, status authenticated
\* or active) has a new access token and a later expiry stored.
C11_ExpiringTokensRefreshed ==
    (auth.pc = "tokens" /\ auth.job.state = "done" /\ auth.job.rejected = 0) =>
        \A g \in SourceIds :
            JobSelects(auth.job.before[g], auth.job.started_at) =>
                /\ sources[g].oauth_access_token # auth.job.before[g].oauth_access_token
                /\ sources[g].oauth_expires_at > auth.job.before[g].oauth_expires_at

\* C12: a successful refresh stores the access token of the provider's
\* answer; when the answer carries no new refresh token the refresh token
\* stored before is kept; the stored refresh token is never empty and is
\* the one the provider just returned or the one stored before.
C12_RefreshTokenPreserved ==
    (auth.pc = "tokens" /\ auth.last.kind = "refreshed") =>
        LET row == sources[auth.last.source]
            before == auth.last.stored_before.oauth_refresh_token
            returned == Get(auth.last.body, "refresh_token", NULL)
        IN  /\ row.oauth_access_token = auth.last.body.access_token
            /\ returned = NULL => row.oauth_refresh_token = before
            /\ row.oauth_refresh_token # NULL
            /\ row.oauth_refresh_token \in {before, returned}

\* ---------------------------------------------------------------------------
\* Device tokens and pairing sessions (base/auth/device_token.py,
\* base/auth/manager.py).  Strings are sequences of ASCII codes; a base64
\* text is a sequence of alphabet indexes 0..63, with Pad for '=' and Dot
\* for the '.' that joins payload and signature.
\* ---------------------------------------------------------------------------
MaxIssued == 2
MaxAdvances == 1
ttl_seconds == 300

Colon == <<58>>
Pad == <<64>>
Dot == <<65>>
DeviceTypeBytes == [ios |-> <<105, 111, 115>>, mac |-> <<109, 97, 99>>]
\* "d", "e", "d:1"
DeviceIds == {<<100>>, <<101>>, <<100, 58, 49>>}
PairedDeviceIds == {<<101>>}
UserIds == {<<117>>}
DeviceSources == {<<"ios", "healthkit">>, <<"mac", "apps">>}
SessionIds == {"p1", "p2"}
ClockSteps == {ttl_seconds, ttl_seconds + 1}

RECURSIVE Digits(_)
Digits(n) == IF n < 10 THEN <<48 + n>> ELSE Digits(n \div 10) \o <<48 + (n % 10)>>

\* datetime.isoformat(): the clock's minutes and seconds, colon separated.
isoformat(t) == Digits(t \div 60) \o Colon \o Digits(t % 60)

\* str.split(sep) for a one-character separator.
RECURSIVE split(_, _)
split(str, sep) ==
    IF \A i \in 1..Len(str) : <<str[i]>> # sep
    THEN <<str>>
    ELSE LET i == CHOOSE k \in 1..Len(str) :
                      <<str[k]>> = sep /\ \A j \in 1..(k - 1) : <<str[j]>> # sep
         IN  <<SubSeq(str, 1, i - 1)>> \o split(SubSeq(str, i + 1, Len(str)), sep)

\* base64.urlsafe_b64encode: three bytes give four alphabet indexes; a tail
\* of one or two bytes is completed with '='.
RECURSIVE urlsafe_b64encode(_)
urlsafe_b64encode(b) ==
    IF Len(b) = 0 THEN <<>>
    ELSE IF Len(b) = 1 THEN <<b[1] \div 4, (b[1] % 4) * 16>> \o Pad \o Pad
    ELSE IF Len(b) = 2
         THEN <<b[1] \div 4, (b[1] % 4) * 16 + b[2] \div 16, (b[2] % 16) * 4>> \o Pad
    ELSE <<b[1] \div 4, (b[1] % 4) * 16 + b[2] \div 16,
           (b[2] % 16) * 4 + b[3] \div 64, b[3] % 64>>
         \o urlsafe_b64encode(SubSeq(b, 4, Len(b)))

\* str.rstrip('=').
RECURSIVE rstrip(_)
rstrip(str) ==
    IF Len(str) > 0 /\ <<str[Len(str)]>> = Pad THEN rstrip(SubSeq(str, 1, Len(str) - 1))
    ELSE str

\* base64.urlsafe_b64decode in its default, lenient mode: decoding stops at
\* the padding, excess padding is accepted, and a lone trailing character
\* is an error (binascii.Error, here DecodeError).
DecodeError == <<0 - 1>>

RECURSIVE urlsafe_b64decode(_)
urlsafe_b64decode(str) ==
    LET data == split(str, Pad)[1]
        n == Len(data)
    IN  IF n = 0 THEN <<>>
        ELSE IF n = 1 THEN DecodeError
        ELSE IF n = 2 THEN <<data[1] * 4 + data[2] \div 16>>
        ELSE IF n = 3 THEN <<data[1] * 4 + data[2] \div 16,
                             (data[2] % 16) * 16 + data[3] \div 4>>
        ELSE LET rest == urlsafe_b64decode(SubSeq(data, 5, n))
             IN  IF rest = DecodeError THEN rest
                 ELSE <<data[1] * 4 + data[2] \div 16,
                        (data[2] % 16) * 16 + data[3] \div 4,
                        (data[3] % 4) * 64 + data[4]>> \o rest

secret_key == <<107>>

\* Lines 180-196.  HMAC-SHA256 is taken as collision free: the digest of the
\* key and the data is written over an alphabet (100 and up) disjoint from
\* the base64 alphabet, Pad and Dot.
_create_signature(data) ==
    LET keyed == secret_key \o data
    IN  [i \in 1..Len(keyed) |-> 100 + keyed[i]]

\* Lines 158-178.
_sign_payload(payload) ==
    LET encoded_payload == rstrip(urlsafe_b64encode(payload))
    IN  encoded_payload \o Dot \o _create_signature(encoded_payload)

\* "refresh", the first field of a refresh payload (line 59).
RefreshPrefix == <<114, 101, 102, 114, 101, 115, 104>>

\* Lines 37-72; nonce stands for secrets.token_hex(16).
generate_device_token(device_id, device_type, user_id, t_now, nonce) ==
    LET payload == device_id \o Colon \o device_type \o Colon \o user_id
                       \o Colon \o isoformat(t_now)
    IN  [device_id |-> device_id, device_type |-> device_type, user_id |-> user_id,
         token |-> _sign_payload(payload),
         refresh_token |-> _sign_payload(RefreshPrefix \o Colon \o payload \o Colon \o nonce),
         created_at |-> t_now]

\* Lines 74-114.
validate_device_token(token, device_id) ==
    LET parts == split(token, Dot)
    IN  IF Len(parts) # 2 THEN FALSE
        ELSE IF parts[2] # _create_signature(parts[1]) THEN FALSE
        ELSE LET padded == parts[1] \o
                     [i \in 1..(4 - (Len(parts[1]) % 4)) |-> Pad[1]]
                 decoded_payload == urlsafe_b64decode(padded)
             IN  IF decoded_payload = DecodeError THEN FALSE
                 ELSE split(decoded_payload, Colon)[1] = device_id

\* Lines 116-156: None, or the new token data built from fields 1, 2 and 3
\* of the decoded payload (an IndexError is caught and gives None).
refresh_device_token(refresh_token, device_id, t_now, nonce) ==
    IF ~ validate_device_token(refresh_token, device_id) THEN [ok |-> FALSE]
    ELSE LET payload == split(refresh_token, Dot)[1]
             decoded_payload == urlsafe_b64decode(
                 payload \o [i \in 1..(4 - (Len(payload) % 4)) |-> Pad[1]])
             payload_parts == split(decoded_payload, Colon)
         IN  IF decoded_payload = DecodeError \/ Len(payload_parts) < 4
             THEN [ok |-> FALSE]
             ELSE [ok |-> TRUE,
                   data |-> generate_device_token(payload_parts[2], payload_parts[3],
                                                  payload_parts[4], t_now, nonce)]

\* Lines 198-224.
create_pairing_session(session_id, pairing_code, device_info, t_now) ==
    [session_id |-> session_id, pairing_code |-> pairing_code,
     device_info |-> device_info, created_at |-> t_now,
     expires_at |-> t_now + ttl_seconds, status |-> "pending"]

\* Lines 226-254: the session id is only copied into the answer.
complete_pairing(session_id, user_id, device_info, t_now, nonce) ==
    [origin |-> "pairing", session_id |-> session_id, paired_at |-> t_now,
     data |-> generate_device_token(device_info.device_id, device_info.device_type,
                                    user_id, t_now, nonce)]

InitDevice ==
    /\ now = 0
    /\ streams = StreamRows([s \in StreamIds |-> GoodProfile])
    /\ stream_configs = ConfigRows([s \in StreamIds |-> GoodProfile], NoTime)
    /\ sources = SourceRows([s \in StreamIds |-> GoodProfile])
    /\ activities = <<>>
    /\ tasks = [t \in TaskIds |-> NoTask]
    /\ probe = [state |-> "idle", count |-> 0, act |-> 0, examined |-> 0]
    /\ req = IdleReq
    /\ cron = IdleCron
    /\ auth = [pc |-> "device", issued |-> <<>>, sessions |-> {}, advances |-> 0,
               check |-> [kind |-> "none"]]
    /\ conn = IdleConn

\* manager.py lines 190-208: credentials carrying device_id and user_id.
AuthenticateDevice(source_name, device_id, user_id) ==
    LET device_type == IF Contains(source_name, "ios") THEN "ios" ELSE "mac"
    IN  /\ auth.pc = "device"
        /\ Len(auth.issued) < MaxIssued
        /\ auth' = [auth EXCEPT !.issued = Append(@,
               [origin |-> "authenticate", session_id |-> NULL, paired_at |-> NoTime,
                data |-> generate_device_token(device_id, DeviceTypeBytes[device_type],
                                               user_id, now, Digits(Len(auth.issued)))])]
        /\ UNCHANGED <<now, streams, stream_configs, sources, activities, tasks, probe,
                       req, cron, conn>>

\* manager.py lines 210-220: credentials carrying token and device_id.
ValidateDevice(i, device_id) ==
    /\ auth.pc = "device"
    /\ i \in 1..Len(auth.issued)
    /\ auth' = [auth EXCEPT !.check =
           [kind |-> "validated", token |-> i, device_id |-> device_id,
            authenticated |-> validate_device_token(auth.issued[i].data.token, device_id)]]
    /\ UNCHANGED <<now, streams, stream_configs, sources, activities, tasks, probe,
                   req, cron, conn>>

\* manager.py lines 222-239: credentials carrying refresh_token and
\* device_id.
RefreshDevice(i, device_id) ==
    /\ auth.pc = "device"
    /\ i \in 1..Len(auth.issued)
    /\ auth' = [auth EXCEPT !.check =
           [kind |-> "refreshed", token |-> i, device_id |-> device_id,
            result |-> refresh_device_token(auth.issued[i].data.refresh_token,
                                            device_id, now, Digits(MaxIssued + i))]]
    /\ UNCHANGED <<now, streams, stream_configs, sources, activities, tasks, probe,
                   req, cron, conn>>

\* manager.py lines 345-367; secrets.token_urlsafe(32) never repeats an id.
CreatePairing(session_id, device_id) ==
    /\ auth.pc = "device"
    /\ \A session \in auth.sessions : session.session_id # session_id
    /\ auth' = [auth EXCEPT !.sessions = @ \cup
           {create_pairing_session(session_id, <<49, 50, 51, 52, 53, 54>>,
                [device_id |-> device_id, device_type |-> DeviceTypeBytes.ios], now)}]
    /\ UNCHANGED <<now, streams, stream_configs, sources, activities, tasks, probe,
                   req, cron, conn>>

\* manager.py lines 369-391.
CompletePairing(session_id, user_id, device_id) ==
    /\ auth.pc = "device"
    /\ Len(auth.issued) < MaxIssued
    /\ auth' = [auth EXCEPT !.issued = Append(@,
           complete_pairing(session_id, user_id,
               [device_id |-> device_id, device_type |-> DeviceTypeBytes.ios], now,
               Digits(Len(auth.issued))))]
    /\ UNCHANGED <<now, streams, stream_configs, sources, activities, tasks, probe,
                   req, cron, conn>>

ClockAdvance(d) ==
    /\ auth.pc = "device"
    /\ auth.advances < MaxAdvances
    /\ now' = now + d
    /\ auth' = [auth EXCEPT !.advances = @ + 1]
    /\ UNCHANGED <<streams, stream_configs, sources, activities, tasks, probe,
                   req, cron, conn>>

NextDevice ==
    \/ \E n \in DeviceSources, d \in DeviceIds, u \in UserIds :
           AuthenticateDevice(n, d, u)
    \/ \E i \in 1..MaxIssued, d \in DeviceIds :
           ValidateDevice(i, d)
    \/ \E i \in 1..MaxIssued, d \in DeviceIds :
           RefreshDevice(i, d)
    \/ \E p \in SessionIds, d \in PairedDeviceIds :
           CreatePairing(p, d)
    \/ \E p \in SessionIds, u \in UserIds, d \in PairedDeviceIds :
           CompletePairing(p, u, d)
    \/ \E d \in ClockSteps :
           ClockAdvance(d)

SpecDevice == InitDevice /\ [][NextDevice]_vars

\* C13: a token issued by authenticating a device source with device id D
\* validates for D and for no other device id.
C13_TokenBoundToDevice ==
    (auth.pc = "device" /\ auth.check.kind = "validated"
         /\ auth.issued[auth.check.token].origin = "authenticate") =>
        (auth.check.authenticated
             <=> auth.check.device_id = auth.issued[auth.check.token].data.device_id)

SessionOf(session_id) == {session \in auth.sessions : session.session_id = session_id}

\* C14: no device token is issued by a complete_pairing that comes more
\* than ttl_seconds after the session was created.
C14_ExpiredSessionIssuesNoToken ==
    auth.pc = "device" =>
        \A i \in 1..Len(auth.issued) : \A session \in SessionOf(auth.issued[i].session_id) :
            auth.issued[i].origin = "pairing" =>
                auth.issued[i].paired_at - session.created_at <= ttl_seconds

\* C15: a pairing session is single use, so at most one device token is
\* ever issued for one session id.
C15_PairingSingleUse ==
    auth.pc = "device" =>
        \A i, j \in 1..Len(auth.issued) :
            (auth.issued[i].origin = "pairing" /\ auth.issued[j].origin = "pairing"
                 /\ auth.issued[i].session_id = auth.issued[j].session_id
                 /\ SessionOf(auth.issued[i].session_id) # {}) => i = j

\* ---------------------------------------------------------------------------
\* Connectors: BaseSync (base/interfaces/sync.py), the Notion, Strava, Google
\* Calendar and Gmail syncs, and the part of sync_stream that runs them.
\* Times are minutes; a NULL number is NoTime, (None, None) is NoRange, and
\* the JSON object of calendar sync tokens is a function from calendar ids.
\* ---------------------------------------------------------------------------
Day == 1440
DefaultDaysPast == 90
DefaultDaysFuture == 30

Connectors == {"notion_pages", "strava_activities", "google_calendar"}
CalendarIds == {"c1", "c2"}
RunIds == {"r1", "r2"}
FreshToken == [r1 |-> "k1", r2 |-> "k2"]
NoCursor == [c \in {} |-> NULL]
NoRange == <<NoTime, NoTime>>

\* sync_sources.py lines 613-682: every key is in the dict the SELECT of
\* lines 100-111 returns, so dict.get falls back only for a missing key, and
\* __getattr__ answers None for a name that is no column (last_sync_at).
StreamWrapper(stream_dict) ==
    [last_successful_ingestion_at |-> Get(stream_dict, "last_ingestion_at", NoTime),
     sync_token |-> Get(stream_dict, "sync_cursor", NoCursor),
     initial_sync_type |-> Get(stream_dict, "initial_sync_type", "limited"),
     initial_sync_days |-> Get(stream_dict, "initial_sync_days", DefaultDaysPast),
     initial_sync_days_future |->
         Get(stream_dict, "initial_sync_days_future", DefaultDaysFuture),
     last_sync_at |-> Get(stream_dict, "last_sync_at", NoTime)]

\* interfaces/sync.py lines 33-43.
is_initial_sync(stream) == stream.last_successful_ingestion_at = NoTime

\* notion/pages/sync.py 39-48, strava 26-33, calendar 25-31.
get_full_sync_range(connector, t_now) ==
    IF connector = "notion_pages" THEN <<t_now - 365 * 2 * Day, t_now>> ELSE NoRange

\* notion/pages/sync.py 50-68, strava 35-48, calendar 33-39.
get_incremental_sync_range(connector, stream, t_now) ==
    IF connector = "notion_pages"
    THEN IF stream.sync_token # NoCursor THEN NoRange
         ELSE IF stream.last_successful_ingestion_at # NoTime
              THEN <<stream.last_successful_ingestion_at - 35, t_now>>
              ELSE <<t_now - 90 * Day, t_now>>
    ELSE IF connector = "strava_activities" /\ stream.last_sync_at # NoTime
         THEN <<stream.last_sync_at - 60, t_now>>
    ELSE NoRange

\* interfaces/sync.py lines 45-80; timedelta(days=None) raises TypeError.
get_sync_date_range(connector, stream, t_now) ==
    IF is_initial_sync(stream)
    THEN IF stream.initial_sync_type = "full"
         THEN [raised |-> FALSE, range |-> get_full_sync_range(connector, t_now)]
         ELSE IF NoTime \in {stream.initial_sync_days, stream.initial_sync_days_future}
              THEN [raised |-> TRUE, range |-> NoRange]
              ELSE [raised |-> FALSE,
                    range |-> <<t_now - stream.initial_sync_days * Day,
                                t_now + stream.initial_sync_days_future * Day>>]
    ELSE [raised |-> FALSE, range |-> get_incremental_sync_range(connector, stream, t_now)]

\* What the provider answers to the successive list_events requests for one
\* calendar: a page with more to come, the last page (carrying
\* nextSyncToken), 410, 403 or 404; an exhausted script answers "last".
EventScripts ==
    {<<"last">>, <<"page", "last">>, <<"gone", "last">>, <<"gone", "page">>,
     <<"page", "gone", "last">>, <<"gone", "denied">>, <<"denied">>, <<"missing">>}

NoEvents == [new |-> NULL, full |-> 0, gone |-> FALSE, failed |-> FALSE, paging |-> FALSE]

\* google/calendar/sync.py lines 114-224, the page loop for one calendar.
\* acc.full counts the listings started without a sync token, acc.gone
\* records a 410, acc.new is the nextSyncToken of the last page.
RECURSIVE list_events_loop(_, _, _, _)
list_events_loop_no_fallback(use_sync_token, script, fresh, acc) ==
    LET answer == IF script = <<>> THEN "last" ELSE Head(script)
        sent == [acc EXCEPT !.full =
                     IF use_sync_token = NULL /\ ~ acc.paging THEN @ + 1 ELSE @]
    IN  IF answer \in {"gone", "denied", "missing"}
        THEN [sent EXCEPT !.gone = (use_sync_token # NULL /\ answer = "gone"),
                          !.failed = TRUE]
        ELSE IF answer = "page"
             THEN list_events_loop(use_sync_token, Tail(script), fresh,
                                   [sent EXCEPT !.paging = TRUE])
        ELSE [sent EXCEPT !.new = fresh]

list_events_loop(use_sync_token, script, fresh, acc) ==
    LET answer == IF script = <<>> THEN "last" ELSE Head(script)
        rest == IF script = <<>> THEN <<>> ELSE Tail(script)
        sent == [acc EXCEPT !.full =
                     IF use_sync_token = NULL /\ ~ acc.paging THEN @ + 1 ELSE @]
    IN  IF use_sync_token # NULL /\ answer = "gone"
        THEN list_events_loop(NULL, rest, fresh,
                              [acc EXCEPT !.gone = TRUE, !.paging = FALSE])
        ELSE IF answer \in {"gone", "denied", "missing"}
             THEN [sent EXCEPT !.failed = TRUE]
        ELSE IF answer = "page"
             THEN list_events_loop(use_sync_token, rest, fresh,
                                   [sent EXCEPT !.paging = TRUE])
        ELSE [sent EXCEPT !.new = fresh]

\* The provider's part in one calendar sync: whether list_calendars
\* answers, which calendars are selected, and a script for each of them.
CalendarAnswers ==
    {[listed |-> FALSE, events |-> [c \in {} |-> <<>>]]}
      \cup {[listed |-> TRUE, events |-> e] :
               e \in UNION {[S -> EventScripts] : S \in SUBSET CalendarIds}}

\* google/calendar/sync.py lines 49-282.
calendar_run_sync(stream, answer, fresh) ==
    IF ~ answer.listed
    THEN [raised |-> TRUE, next_sync_token |-> NoCursor, calendars |-> NoCursor,
          unreachable |-> TRUE]
    ELSE LET existing_sync_tokens == stream.sync_token
             calendars == [c \in DOMAIN answer.events |->
                 list_events_loop(Get(existing_sync_tokens, c, NULL),
                                  answer.events[c], fresh, NoEvents)]
             calendar_sync_tokens == {c \in DOMAIN calendars : calendars[c].new # NULL}
             all_sync_tokens ==
                 [c \in DOMAIN existing_sync_tokens \cup calendar_sync_tokens |->
                     IF c \in calendar_sync_tokens THEN calendars[c].new
                     ELSE existing_sync_tokens[c]]
         IN  [raised |-> FALSE, next_sync_token |-> all_sync_tokens,
              calendars |-> calendars, unreachable |-> FALSE]

\* The provider for Notion and Strava: it answers, cannot be reached, or
\* rejects the access token.
PlainAnswers == {"ok", "unreachable", "unauthorized"}

\* strava/activities/sync.py lines 56-224 (the outer handler returns the
\* stats) and notion/pages/sync.py lines 211-260 (the search call raises).
fetch_data(connector, stream, answer, fresh) ==
    IF connector = "google_calendar" THEN calendar_run_sync(stream, answer, fresh)
    ELSE [raised |-> connector = "notion_pages" /\ answer # "ok",
          next_sync_token |-> NoCursor, calendars |-> NoCursor,
          unreachable |-> answer # "ok"]

\* interfaces/sync.py lines 123-169, and the override of
\* notion/pages/sync.py lines 83-163 that sync_stream calls with no argument.
run(connector, stream, answer, fresh, t_now) ==
    LET dates == get_sync_date_range(connector, stream, t_now)
        result == fetch_data(connector, stream, answer, fresh)
    IN  IF connector = "notion_pages"
        THEN [result EXCEPT !.raised = FALSE] @@
             [status |-> IF result.raised THEN "error" ELSE "success",
              fetch_raised |-> result.raised, dates |-> dates]
        ELSE IF dates.raised
        THEN [raised |-> TRUE, next_sync_token |-> NoCursor, calendars |-> NoCursor,
              unreachable |-> FALSE, status |-> "error", fetch_raised |-> FALSE,
              dates |-> dates]
        ELSE result @@
             [status |-> IF result.raised THEN "error" ELSE "success",
              fetch_raised |-> result.raised, dates |-> dates]

\* google/gmail/sync.py lines 70-155 and 157-262: what get_history answers.
GmailAnswers ==
    {<<"ok">>, <<"startHistoryId", "Too Old">>, <<"startHistoryId", "invalid">>,
     <<"quota", "exceeded">>}

\* str.lower() on the words the provider's messages use.
lower(msg) == [i \in 1..Len(msg) |-> IF msg[i] = "Too Old" THEN "too old" ELSE msg[i]]

\* google/gmail/sync.py lines 157-262.
gmail_incremental_sync(start_history_id, answer, fresh) ==
    IF answer = <<"ok">>
    THEN [raised |-> FALSE, history_id |-> fresh, sync_type |-> "incremental", full |-> 0]
    ELSE IF Contains(answer, "startHistoryId") /\ Contains(lower(answer), "too old")
    THEN [raised |-> FALSE, history_id |-> fresh, sync_type |-> "initial", full |-> 1]
    ELSE [raised |-> TRUE, history_id |-> start_history_id, sync_type |-> "incremental",
          full |-> 0]

ProviderAnswers ==
    IF conn.connector = "google_calendar" THEN CalendarAnswers ELSE PlainAnswers

IdleRun == [state |-> "idle"]

ConnStreams ==
    {[last_ingestion_at |-> t, initial_sync_type |-> ty, initial_sync_days |-> d,
      initial_sync_days_future |-> f, sync_cursor |-> NoCursor] :
         t \in {NoTime, 999 * Day}, ty \in {"limited", "full", NULL},
         d \in {NoTime, 90, 7}, f \in {NoTime, 30}}
      \cup {[last_ingestion_at |-> 999 * Day, initial_sync_type |-> "limited",
             initial_sync_days |-> 90, initial_sync_days_future |-> 30,
             sync_cursor |-> [c \in S |-> "k0"]] : S \in (SUBSET CalendarIds) \ {{}}}

\* One stream "s1" of one connector; conn.stream is the row the SELECT of
\* sync_sources.py lines 100-111 would return for it.  The Gmail sync is
\* followed on its own: GmailSync reads stream.state and
\* stream.stream_config, which the wrapped row does not carry.
InitConn ==
    /\ now = 1000 * Day
    /\ streams = StreamRows([s \in StreamIds |-> GoodProfile])
    /\ stream_configs = ConfigRows([s \in StreamIds |-> GoodProfile], NoTime)
    /\ sources = SourceRows([s \in StreamIds |-> GoodProfile])
    /\ activities = <<>>
    /\ tasks = [t \in TaskIds |-> NoTask]
    /\ probe = [state |-> "idle", count |-> 0, act |-> 0, examined |-> 0]
    /\ req = IdleReq
    /\ cron = IdleCron
    /\ auth = IdleAuth
    /\ \E connector \in Connectors \cup {"gmail"}, row \in ConnStreams :
           /\ row.sync_cursor # NoCursor => connector = "google_calendar"
           /\ connector \in {"google_calendar", "gmail"} =>
                  /\ row.initial_sync_type = "limited"
                  /\ row.initial_sync_days = DefaultDaysPast
                  /\ row.initial_sync_days_future = DefaultDaysFuture
           /\ conn = [pc |-> "conn", connector |-> connector, stream |-> row,
                      runs |-> [r \in RunIds |-> IdleRun],
                      gmail |-> [state |-> "idle"]]

\* sync_sources.py lines 99-203: the row is read, the activity inserted and
\* committed, the sync object built around the wrapped row.
RunStart(r) ==
    /\ conn.pc = "conn"
    /\ conn.connector \in Connectors
    /\ conn.runs[r].state = "idle"
    /\ now' = now + 1
    /\ activities' = InsertActivity(Committed, "sync", "s1", r, "running").activities
    /\ conn' = [conn EXCEPT !.runs[r] =
           [state |-> "started", act |-> Len(activities) + 1,
            row |-> conn.stream, stream |-> StreamWrapper(conn.stream),
            started_at |-> now']]
    /\ UNCHANGED <<streams, stream_configs, sources, tasks, probe, req, cron, auth>>

\* sync_sources.py lines 205-216: sync.run() against the provider.
RunFetch(r, answer) ==
    /\ conn.pc = "conn"
    /\ conn.runs[r].state = "started"
    /\ conn' = [conn EXCEPT !.runs[r] =
           [state |-> "fetched",
            out |-> run(conn.connector, conn.runs[r].stream, answer, FreshToken[r],
                        conn.runs[r].started_at)] @@ @]
    /\ UNCHANGED <<now, streams, stream_configs, sources, activities, tasks, probe,
                   req, cron, auth>>

\* sync_sources.py lines 218-273 (run() returned) and 283-319 (it raised).
RunClose(r) ==
    LET this == conn.runs[r]
        advanced == ~ this.out.raised
        stored == advanced /\ this.out.next_sync_token # NoCursor
    IN  /\ conn.pc = "conn"
        /\ this.state = "fetched"
        /\ now' = now + 1
        /\ activities' = UpdateActivityStatus(Committed, this.act,
               IF advanced THEN "completed" ELSE "failed",
               IF advanced THEN <<>> ELSE <<"error">>).activities
        /\ conn' = [conn EXCEPT
               !.stream.last_ingestion_at = IF advanced THEN now' ELSE @,
               !.stream.sync_cursor = IF stored THEN this.out.next_sync_token ELSE @,
               !.runs[r] = [state |-> "closed", advanced |-> advanced,
                            cursor_before |-> conn.stream.sync_cursor] @@ @]
        /\ UNCHANGED <<streams, stream_configs, sources, tasks, probe, req, cron, auth>>

\* google/gmail/sync.py lines 49-64 with a stream that carries a history id.
GmailFetch(history_id, answer) ==
    /\ conn.pc = "conn"
    /\ conn.connector = "gmail"
    /\ conn' = [conn EXCEPT !.gmail =
           [state |-> "fetched", history_id |-> history_id, answer |-> answer,
            out |-> gmail_incremental_sync(history_id, answer, "h1")]]
    /\ UNCHANGED <<now, streams, stream_configs, sources, activities, tasks, probe,
                   req, cron, auth>>

NextConn ==
    \/ \E r \in RunIds :
           RunStart(r)
    \/ \E r \in RunIds, answer \in ProviderAnswers :
           RunFetch(r, answer)
    \/ \E r \in RunIds :
           RunClose(r)
    \/ \E answer \in GmailAnswers :
           GmailFetch("h0", answer)

SpecConn == InitConn /\ [][NextConn]_vars

Ran == {r \in RunIds : conn.pc = "conn" /\ conn.runs[r].state \in {"fetched", "closed"}}
Closed == {r \in Ran : conn.runs[r].state = "closed"}

\* C16: with no last-ingestion time stored the sync is initial and the
\* range is (now - initial_sync_days, now + initial_sync_days_future), 90
\* and 30 days where the row gives none, for type limited, and the
\* connector's full range for type full; with a time stored it is not
\* initial and the range is the connector's incremental range.
C16_SyncDateRange ==
    \A r \in Ran :
        LET this == conn.runs[r]
            past == IF this.row.initial_sync_days = NoTime THEN DefaultDaysPast
                    ELSE this.row.initial_sync_days
            future == IF this.row.initial_sync_days_future = NoTime
                      THEN DefaultDaysFuture ELSE this.row.initial_sync_days_future
            expected ==
                IF this.row.last_ingestion_at # NoTime
                THEN get_incremental_sync_range(conn.connector, this.stream, this.started_at)
                ELSE IF this.row.initial_sync_type = "full"
                THEN get_full_sync_range(conn.connector, this.started_at)
                ELSE <<this.started_at - past * Day, this.started_at + future * Day>>
        IN  /\ is_initial_sync(this.stream) <=> this.row.last_ingestion_at = NoTime
            /\ this.row.initial_sync_type # NULL =>
                   this.out.dates = [raised |-> FALSE, range |-> expected]

\* C17: when the connector's fetch raises, run() records status error and
\* raises too.
C17_RunReraises ==
    \A r \in Ran :
        conn.runs[r].out.fetch_raised =>
            conn.runs[r].out.raised /\ conn.runs[r].out.status = "error"

\* C18: a sync whose outbound calls fail (provider unreachable or access
\* token rejected) is closed as failed, never as completed, and does not
\* advance the last successful ingestion.
C18_FailedCallsFailSync ==
    \A r \in Closed :
        conn.runs[r].out.unreachable =>
            /\ activities[conn.runs[r].act].status = "failed"
            /\ ~ conn.runs[r].advanced

InvalidToken(r) ==
    {c \in DOMAIN conn.runs[r].out.calendars : conn.runs[r].out.calendars[c].gone}

C20_UnfetchedCursorKept ==
    [][\A r \in RunIds :
           (conn.pc = "conn" /\ conn.runs[r].state = "fetched"
                /\ conn'.runs[r].state = "closed" /\ conn'.runs[r].advanced) =>
               /\ \A c \in CalendarIds \ DOMAIN conn.runs[r].out.calendars :
                      Get(conn'.stream.sync_cursor, c, NULL)
                          = Get(conn.stream.sync_cursor, c, NULL)
               /\ conn.runs[r].out.next_sync_token = NoCursor =>
                      conn'.stream.sync_cursor = conn.stream.sync_cursor]_vars

\* ---------------------------------------------------------------------
\* Hybrid storage: StreamProcessor.process_batch (processors/base.py) and
\* HybridStreamStorage.store_stream_data (storage/minio.py).  A record's
\* fields are split between the relational row and the object store.
\* ---------------------------------------------------------------------

RecordIds == {"r1", "r2"}

\* Field order of a processed record (dict order), and the fields the
\* stream configuration declares object-store-bound.
FieldOrder == <<"title", "audio_data", "blocks">>
minio_fields == {"audio_data", "blocks"}

\* "b64" is a base64 string, "bad" a string base64.b64decode rejects
\* (incorrect padding), "list" a JSON-serialisable list.
FieldValues(f) ==
    CASE f = "title" -> {NULL, "t"}
      [] f = "audio_data" -> {NULL, "b64", "bad"}
      [] f = "blocks" -> {NULL, "list"}

IsStr(v) == v \in {"t", "b64", "bad"}

InvalidRecord == [valid |-> FALSE, data |-> [f \in {"title", "audio_data", "blocks"} |-> NULL]]

RecordShapes ==
    {InvalidRecord} \cup
    {[valid |-> TRUE, data |-> [f \in {"title", "audio_data", "blocks"} |->
          CASE f = "title" -> t [] f = "audio_data" -> a [] f = "blocks" -> b]] :
        t \in FieldValues("title"), a \in FieldValues("audio_data"),
        b \in FieldValues("blocks")}

EmptyRow == [c \in {} |-> NULL]

Put(row, k, v) == [c \in DOMAIN row \cup {k} |-> IF c = k THEN v ELSE row[c]]

\* minio.py lines 291-316 and 356: the key store_raw_data returns, one
\* per call (uuid4).
store_raw_data_key(r, f) == "streams/" \o r \o "/" \o f

\* minio.py lines 480-494: the path _store_to_minio builds.
store_to_minio_path(r, f) == "assets/" \o r \o "/" \o f

ObjectPaths ==
    {store_raw_data_key(r, f) : r \in RecordIds, f \in minio_fields} \cup
    {store_to_minio_path(r, f) : r \in RecordIds, f \in minio_fields}

\* base.py line 229.
SemaphoreLimit == 25

\* base.py lines 189-217: the upload of one field is prepared; decoding
\* audio_data may raise, and then the field is left out.
prepare_upload(field_name, value) ==
    IF IsStr(value) /\ field_name = "audio_data"
    THEN IF value = "bad"
         THEN [prepared |-> FALSE, file_size |-> "0"]
         ELSE [prepared |-> TRUE, file_size |-> "len"]
    ELSE [prepared |-> TRUE, file_size |-> "0"]

\* base.py lines 267-270: the plain path, which inserts the processed
\* record as it is.
plain_record(data, i, acc) ==
    [row |-> [f \in DOMAIN data |-> data[f]], tasks |-> {}]

\* base.py lines 181-221: one processed record becomes a relational
\* record and the upload tasks of its object-store fields.
RECURSIVE split_record(_, _, _)
split_record(data, i, acc) ==
    IF i > Len(FieldOrder) THEN acc
    ELSE LET field_name == FieldOrder[i]
             value == data[field_name]
         IN  IF field_name \in minio_fields /\ value # NULL
             THEN LET p == prepare_upload(field_name, value)
                  IN  IF p.prepared
                      THEN split_record(data, i + 1,
                               [row |-> Put(acc.row, "file_size", p.file_size),
                                tasks |-> acc.tasks \cup {field_name}])
                      ELSE split_record(data, i + 1, acc)
             ELSE split_record(data, i + 1,
                      [row |-> Put(acc.row, field_name, value), tasks |-> acc.tasks])

\* base.py lines 258-266: the results of the uploads are written back to
\* the relational records, in the order the uploads were scheduled.
RECURSIVE write_back(_, _, _, _)
write_back(r, row, results, i) ==
    IF i > Len(FieldOrder) THEN row
    ELSE LET f == FieldOrder[i]
         IN  IF <<r, f>> \in DOMAIN results /\ results[<<r, f>>] = "ok"
             THEN write_back(r, Put(row, "minio_path", store_raw_data_key(r, f)),
                             results, i + 1)
             ELSE write_back(r, row, results, i + 1)

\* minio.py lines 440-470 and 472-517: _split_data uploads the object
\* fields one after the other; a failing upload raises out of it.
RECURSIVE _split_data(_, _, _, _, _)
_split_data(r, data, outcome, i, acc) ==
    IF i > Len(FieldOrder) \/ acc.raised THEN acc
    ELSE LET field_name == FieldOrder[i]
             value == data[field_name]
         IN  IF value = NULL
             THEN _split_data(r, data, outcome, i + 1,
                      [acc EXCEPT !.postgres_data = Put(@, field_name, NULL)])
             ELSE IF field_name \in minio_fields
             THEN IF IsStr(value) /\ value = "bad"
                  THEN [acc EXCEPT !.raised = TRUE]
                  ELSE IF outcome[field_name] = "failed"
                  THEN [acc EXCEPT !.raised = TRUE,
                                   !.uploads = @ \cup {<<field_name, "failed">>}]
                  ELSE _split_data(r, data, outcome, i + 1,
                           [acc EXCEPT !.minio_refs = @ \cup {field_name},
                                       !.uploads = @ \cup {<<field_name, "ok">>}])
             ELSE _split_data(r, data, outcome, i + 1,
                      [acc EXCEPT !.postgres_data = Put(@, field_name, value)])

\* minio.py lines 423-428: a path and a stored-at column per reference.
RECURSIVE add_references(_, _, _, _)
add_references(r, row, minio_refs, i) ==
    IF i > Len(FieldOrder) THEN row
    ELSE LET f == FieldOrder[i]
         IN  IF f \in minio_refs
             THEN add_references(r,
                      Put(Put(row, f \o "_path", store_to_minio_path(r, f)),
                          f \o "_stored_at", "now"),
                      minio_refs, i + 1)
             ELSE add_references(r, row, minio_refs, i + 1)

\* An unbounded semaphore.
no_semaphore(in_flight) == TRUE

\* base.py lines 229 and 237: async with semaphore admits a wrapper while
\* fewer than 25 hold it.
semaphore_free(in_flight) == in_flight < SemaphoreLimit

InFlight ==
    Cardinality({u \in DOMAIN conn.uploads : conn.uploads[u] = "running"})
        + conn.fill.running

Unfinished ==
    Cardinality({u \in DOMAIN conn.uploads : conn.uploads[u] \in {"waiting", "running"}})
        + conn.fill.waiting + conn.fill.running

AnyFailed ==
    \/ \E u \in DOMAIN conn.uploads : conn.uploads[u] = "failed"
    \/ conn.fill.failed > 0

\* gather without return_exceptions over wrappers that re-raise: the first
\* exception is raised to the caller at once.
gather_first_exception(unfinished, any_failed) ==
    [ready |-> unfinished = 0 \/ any_failed, raised |-> any_failed]

\* base.py lines 234-256: every wrapper catches the exception of its
\* upload and returns it, and gather(return_exceptions=True) returns
\* when all wrappers have returned.
gather(unfinished, any_failed) == [ready |-> unfinished = 0, raised |-> FALSE]

NoUploads == [u \in {} |-> "waiting"]

InitStore ==
    /\ now = 0
    /\ streams = StreamRows([s \in StreamIds |-> GoodProfile])
    /\ stream_configs = ConfigRows([s \in StreamIds |-> GoodProfile], NoTime)
    /\ sources = SourceRows([s \in StreamIds |-> GoodProfile])
    /\ activities = <<>>
    /\ tasks = [t \in TaskIds |-> NoTask]
    /\ probe = [state |-> "idle", count |-> 0, act |-> 0, examined |-> 0]
    /\ req = IdleReq
    /\ cron = IdleCron
    /\ auth = IdleAuth
    /\ \E path \in {"process_batch", "store_stream_data"},
          batch \in [RecordIds -> RecordShapes],
          extra \in {0, SemaphoreLimit} :
           /\ extra > 0 => path = "process_batch" /\ ~ batch["r2"].valid
           /\ conn = [pc |-> "store", path |-> path, batch |-> batch, extra |-> extra,
                      stage |-> "new",
                      records_for_db |-> [r \in {} |-> EmptyRow],
                      uploads |-> NoUploads,
                      fill |-> [waiting |-> 0, running |-> 0, ok |-> 0, failed |-> 0],
                      rows |-> [r \in {} |-> EmptyRow],
                      fill_rows |-> 0,
                      stored |-> [r \in RecordIds |-> "no"]]

\* base.py lines 114-221: the records are validated and processed, the
\* relational records built and the uploads prepared (coroutine objects,
\* not yet started).
BatchPrepare ==
    /\ conn.pc = "store" /\ conn.path = "process_batch" /\ conn.stage = "new"
    /\ LET valid == {r \in RecordIds : conn.batch[r].valid}
           parts == [r \in valid |->
                        split_record(conn.batch[r].data, 1, [row |-> EmptyRow, tasks |-> {}])]
       IN  conn' = [stage |-> "uploading",
                    records_for_db |-> [r \in valid |-> parts[r].row],
                    uploads |-> [u \in {x \in valid \X minio_fields :
                                            x[2] \in parts[x[1]].tasks}
                                   |-> "waiting"],
                    fill |-> [waiting |-> conn.extra, running |-> 0, ok |-> 0, failed |-> 0]]
                   @@ conn
    /\ UNCHANGED <<now, streams, stream_configs, sources, activities, tasks, probe,
                   req, cron, auth>>

\* base.py lines 236-239: a wrapper enters the semaphore and starts its
\* upload.
UploadStart(u) ==
    /\ conn.pc = "store" /\ conn.stage = "uploading"
    /\ u \in DOMAIN conn.uploads /\ conn.uploads[u] = "waiting"
    /\ semaphore_free(InFlight)
    /\ conn' = [conn EXCEPT !.uploads[u] = "running"]
    /\ UNCHANGED <<now, streams, stream_configs, sources, activities, tasks, probe,
                   req, cron, auth>>

\* base.py lines 239-256: the upload returns its key or raises; either
\* way the wrapper returns and leaves the semaphore.
UploadFinish(u, outcome) ==
    /\ conn.pc = "store" /\ conn.stage \in {"uploading", "raised"}
    /\ u \in DOMAIN conn.uploads /\ conn.uploads[u] = "running"
    /\ conn' = [conn EXCEPT !.uploads[u] = outcome]
    /\ UNCHANGED <<now, streams, stream_configs, sources, activities, tasks, probe,
                   req, cron, auth>>

\* The same two steps for the other records of a large batch, which each
\* carry one object-store field and are counted, not told apart.
FillerStart ==
    /\ conn.pc = "store" /\ conn.stage = "uploading"
    /\ conn.fill.waiting > 0
    /\ semaphore_free(InFlight)
    /\ conn' = [conn EXCEPT !.fill.waiting = @ - 1, !.fill.running = @ + 1]
    /\ UNCHANGED <<now, streams, stream_configs, sources, activities, tasks, probe,
                   req, cron, auth>>

FillerFinish(outcome) ==
    /\ conn.pc = "store" /\ conn.stage \in {"uploading", "raised"}
    /\ conn.fill.running > 0
    /\ conn' = [conn EXCEPT !.fill.running = @ - 1,
                            !.fill.ok = IF outcome = "ok" THEN @ + 1 ELSE @,
                            !.fill.failed = IF outcome = "failed" THEN @ + 1 ELSE @]
    /\ UNCHANGED <<now, streams, stream_configs, sources, activities, tasks, probe,
                   req, cron, auth>>

\* base.py lines 256-287: gather returns, the keys of the successful
\* uploads are written to the records, the records are inserted and the
\* session committed.
BatchInsert ==
    /\ conn.pc = "store" /\ conn.stage = "uploading"
    /\ LET g == gather(Unfinished, AnyFailed)
       IN  /\ g.ready
           /\ conn' = IF g.raised
                      THEN [conn EXCEPT !.stage = "raised"]
                      ELSE [conn EXCEPT
                               !.stage = "inserted",
                               !.rows = [r \in DOMAIN conn.records_for_db |->
                                            write_back(r, conn.records_for_db[r],
                                                       conn.uploads, 1)],
                               !.fill_rows = conn.extra]
    /\ UNCHANGED <<now, streams, stream_configs, sources, activities, tasks, probe,
                   req, cron, auth>>

\* minio.py lines 397-438: store_stream_data splits one record, adds the
\* references and inserts the row.
StoreStreamData(r, outcome) ==
    /\ conn.pc = "store" /\ conn.path = "store_stream_data"
    /\ conn.batch[r].valid /\ conn.stored[r] = "no"
    /\ LET s == _split_data(r, conn.batch[r].data, outcome, 1,
                    [postgres_data |-> EmptyRow, minio_refs |-> {}, uploads |-> {},
                     raised |-> FALSE])
           attempted == {<<r, x[1]>> : x \in s.uploads}
           results == [u \in DOMAIN conn.uploads \cup attempted |->
                          IF u \in attempted
                          THEN IF <<u[2], "ok">> \in s.uploads THEN "ok" ELSE "failed"
                          ELSE conn.uploads[u]]
       IN  conn' = IF s.raised
                   THEN [conn EXCEPT !.stored[r] = "raised", !.uploads = results]
                   ELSE [conn EXCEPT
                            !.stored[r] = "row", !.uploads = results,
                            !.rows = [x \in DOMAIN conn.rows \cup {r} |->
                                         IF x = r
                                         THEN add_references(r, s.postgres_data,
                                                             s.minio_refs, 1)
                                         ELSE conn.rows[x]]]
    /\ UNCHANGED <<now, streams, stream_configs, sources, activities, tasks, probe,
                   req, cron, auth>>

NextStore ==
    \/ BatchPrepare
    \/ \E u \in RecordIds \X minio_fields :
           UploadStart(u)
    \/ \E u \in RecordIds \X minio_fields, outcome \in {"ok", "failed"} :
           UploadFinish(u, outcome)
    \/ FillerStart
    \/ \E outcome \in {"ok", "failed"} :
           FillerFinish(outcome)
    \/ BatchInsert
    \/ \E r \in RecordIds, outcome \in [minio_fields -> {"ok", "failed"}] :
           StoreStreamData(r, outcome)

SpecStore == InitStore /\ [][NextStore]_vars

\* The records whose storing has ended, with a row or with an exception.
Stored ==
    IF conn.pc # "store" THEN {}
    ELSE IF conn.path = "process_batch"
    THEN IF conn.stage \in {"inserted", "raised"}
         THEN {r \in RecordIds : conn.batch[r].valid} ELSE {}
    ELSE {r \in RecordIds : conn.stored[r] # "no"}

UploadOf(r, f) ==
    IF <<r, f>> \in DOMAIN conn.uploads THEN conn.uploads[<<r, f>>] ELSE "none"

\* C21: no inserted row holds the raw value of an object-store-bound
\* field: for every record and every declared field with a non-null value
\* no column of the row carries that value, whether the upload succeeded,
\* failed or could not be prepared.
C21_NoRawValueInRow ==
    conn.pc = "store" =>
        \A r \in DOMAIN conn.rows, f \in minio_fields :
            conn.batch[r].data[f] # NULL =>
                \A c \in DOMAIN conn.rows[r] :
                    /\ conn.rows[r][c] # conn.batch[r].data[f]
                    /\ c = f => conn.rows[r][c] \in ObjectPaths

C21_Witness ==
    /\ conn.pc = "store" /\ conn.path = "process_batch"
    /\ DOMAIN conn.rows = RecordIds
    /\ conn.batch["r1"].data["audio_data"] = "bad"
    /\ UploadOf("r1", "blocks") = "ok"
    /\ UploadOf("r2", "audio_data") = "failed"

\* C22: when the upload of an object-store-bound field of a stored record
\* has failed, the record's row is inserted all the same, with every
\* relational field, and carries no reference to that field's object.
C22_FailedUploadRowStillWritten ==
    conn.pc = "store" =>
        \A r \in Stored, f \in minio_fields :
            UploadOf(r, f) = "failed" =>
                /\ r \in DOMAIN conn.rows
                /\ \A c \in DOMAIN conn.batch[r].data :
                       c \notin minio_fields =>
                           /\ c \in DOMAIN conn.rows[r]
                           /\ conn.rows[r][c] = conn.batch[r].data[c]
                /\ \A c \in DOMAIN conn.rows[r] :
                       conn.rows[r][c] \notin
                           {store_raw_data_key(r, f), store_to_minio_path(r, f)}

\* C23: an inserted row carries one reference per successfully uploaded
\* field: the object path of each such field is the value of some column
\* of the row.
C23_OneReferencePerUploadedField ==
    conn.pc = "store" =>
        \A r \in DOMAIN conn.rows, f \in minio_fields :
            UploadOf(r, f) = "ok" =>
                \E c \in DOMAIN conn.rows[r] :
                    conn.rows[r][c] \in
                        {store_raw_data_key(r, f), store_to_minio_path(r, f)}

C25_InsertAfterAllUploads ==
    conn.pc = "store" /\ conn.path = "process_batch"
            /\ conn.stage \in {"inserted", "raised"} =>
        /\ conn.stage = "inserted"
        /\ Unfinished = 0
        /\ \A u \in DOMAIN conn.uploads : conn.uploads[u] \in {"ok", "failed"}
        /\ conn.fill.ok + conn.fill.failed = conn.extra

C25_Witness ==
    /\ conn.pc = "store" /\ conn.stage = "inserted"
    /\ UploadOf("r1", "audio_data") = "failed"
    /\ UploadOf("r1", "blocks") = "ok"
    /\ UploadOf("r2", "audio_data") = "ok"

\* ---------------------------------------------------------------------
\* The ledger of the processing and maintenance tasks (SpecLedger).
\* ---------------------------------------------------------------------

ActivityTypeOf(name) ==
    CASE name \in {"process_stream_data", "process_stream_batch"} -> "signal_creation"
      [] name = "cleanup_old_runs" -> "cleanup"
      [] name = "sync_stream" -> "ingestion"
      [] OTHER -> "none"

\* The step in which an execution of task t begins.
Begins(t) ==
    /\ tasks[t].state = "queued"
    /\ tasks'[t] # tasks[t]

\* The step in which an execution of task t ends.
Ends(t) ==
    /\ tasks[t].state \in {"queued", "started"}
    /\ \/ tasks'[t].state \in {"success", "failed"}
       \/ tasks'[t].retries > tasks[t].retries

\* The activity rows of the given type written for this execution of t.
WrittenFor(t, type) ==
    {i \in 1..Len(activities') :
        /\ activities'[i].activity_type = type
        /\ activities'[i].owner[2] = t
        /\ activities'[i].owner[3] = tasks[t].retries}

\* C26: every unit of work creates one activity row of the matching type
\* when it starts: signal_creation for a processing task, cleanup for a
\* cleanup job.
C26_ActivityRowPerUnitOfWork ==
    [][\A t \in TaskIds :
           Begins(t) => Cardinality(WrittenFor(t, ActivityTypeOf(tasks[t].name))) = 1]_vars

\* C27: a processing task that succeeds closes its signal_creation
\* activity as completed and sets the stream's last-processed time; one
\* that raises closes the activity as failed and leaves that time as it
\* was.
C27_ProcessingClosesActivity ==
    [][\A t \in TaskIds :
           (Ends(t) /\ ActivityTypeOf(tasks[t].name) = "signal_creation") =>
               LET s == tasks[t].stream
                   c == ConfigIdOf(s)
                   status == IF tasks'[t].state = "success" THEN "completed" ELSE "failed"
               IN  /\ \E i \in WrittenFor(t, "signal_creation") :
                          activities'[i].status = status
                   /\ IF tasks'[t].state = "success"
                      THEN \/ streams'[s].last_sync_at = now
                           \/ stream_configs'[c].last_ingestion_at = now
                      ELSE /\ streams'[s].last_sync_at = streams[s].last_sync_at
                           /\ stream_configs'[c].last_ingestion_at =
                                  stream_configs[c].last_ingestion_at]_vars

\* ---------------------------------------------------------------------
\* Failures inside a probe (SpecSched).
\* ---------------------------------------------------------------------

NewlyQueued(s) ==
    \E t \in TaskIds :
        /\ tasks[t].state = "none"
        /\ tasks'[t].state = "queued"
        /\ tasks'[t].origin > 0
        /\ tasks'[t].stream = s

\* C28: a stream whose cron expression is invalid is treated as not due
\* and is not enqueued, the other selected streams of the probe that are
\* due are enqueued all the same, and a probe that raised leaves the
\* scheduler ready for the next probe.
C28_InvalidCronNotDue ==
    [][(probe.state = "running" /\ probe'.state = "idle") =>
          /\ \A s \in StreamIds :
                 LET cfg == stream_configs[streams[s].stream_config_id]
                     valid == cfg.cron_schedule # NULL
                                  /\ CronMinuteStep(cfg.cron_schedule) # 0
                 IN  /\ NewlyQueued(s) => valid
                     /\ (/\ activities'[probe.act].status = "completed"
                         /\ s \in ProbeQuery(Committed, sources)
                         /\ valid
                         /\ should_sync(cfg.cron_schedule, cfg.last_ingestion_at, now))
                            => NewlyQueued(s)
          /\ activities'[probe.act].status \in {"completed", "failed"}
          /\ probe'.count = probe.count]_vars

\* ---------------------------------------------------------------------
\* The session of sync_stream during run() (Spec).
\* ---------------------------------------------------------------------

\* C29: no transaction of the task's session is open while run() makes
\* its network calls: whatever sync_stream began before run() has been
\* committed or rolled back, and no read before run() has begun another.
C29_NoTransactionAcrossRun ==
    \A t \in TaskIds :
        (IsSync(t) /\ tasks[t].state = "ran") => ~ tasks[t].outcome.tx

\* ---------------------------------------------------------------------
\* The rate limiter of the API clients (SpecRate): RateLimiter.acquire,
\* BaseAPIClient._execute_request and GmailClient._make_request, called
\* by several coroutines of one sync task.  Time is counted in tenths of
\* a second.
\* ---------------------------------------------------------------------

MaxSent == 3
MaxElapsed == 4

Coroutines == {"k1", "k2"}

\* google/calendar/client.py line 29.
RequestsPerSecond == 5

\* base.py line 36, in tenths of a second.
min_interval == IF RequestsPerSecond > 0 THEN 10 \div RequestsPerSecond ELSE 0

InitRate ==
    /\ now = 0
    /\ streams = StreamRows([s \in StreamIds |-> GoodProfile])
    /\ stream_configs = ConfigRows([s \in StreamIds |-> GoodProfile], NoTime)
    /\ sources = SourceRows([s \in StreamIds |-> GoodProfile])
    /\ activities = <<>>
    /\ tasks = [t \in TaskIds |-> NoTask]
    /\ probe = [state |-> "idle", count |-> 0, act |-> 0, examined |-> 0]
    /\ req = IdleReq
    /\ cron = IdleCron
    /\ conn = IdleConn
    /\ \E client \in {"base", "gmail"} :
           auth = [pc |-> "rate", client |-> client, clock |-> 100,
                   last_request_time |-> 0, lock |-> NULL,
                   co |-> [c \in Coroutines |-> [pc |-> "idle", wake |-> 0]],
                   issued |-> <<>>, acquired |-> 0]

Calls == Cardinality({c \in Coroutines : auth.co[c].pc \in {"acquire", "sleeping"}})

\* base.py lines 182-185: the request of a BaseAPIClient goes to the rate
\* limiter first.
ExecuteRequest(c) ==
    /\ auth.pc = "rate" /\ auth.client = "base"
    /\ auth.co[c].pc = "idle"
    /\ Len(auth.issued) + Calls < MaxSent
    /\ auth' = [auth EXCEPT !.co[c].pc = "acquire"]
    /\ UNCHANGED <<now, streams, stream_configs, sources, activities, tasks, probe,
                   req, cron, conn>>

\* base.py lines 42-50 and 188-193: with the lock taken, acquire either
\* finds the interval elapsed, notes the time and returns, and the request
\* is sent, or goes to sleep for the rest of the interval, keeping the
\* lock.
RateAcquire(c) ==
    /\ auth.pc = "rate"
    /\ auth.co[c].pc = "acquire"
    /\ auth.lock = NULL
    /\ LET time_since_last == auth.clock - auth.last_request_time
       IN  auth' = IF time_since_last < min_interval
                   THEN [auth EXCEPT !.lock = c, !.co[c].pc = "sleeping",
                                     !.co[c].wake = auth.clock + (min_interval - time_since_last)]
                   ELSE [auth EXCEPT !.last_request_time = auth.clock,
                                     !.acquired = @ + 1,
                                     !.co[c].pc = "sent",
                                     !.issued = Append(@, auth.clock)]
    /\ UNCHANGED <<now, streams, stream_configs, sources, activities, tasks, probe,
                   req, cron, conn>>

\* base.py lines 48-50 and 188-193: the sleep over, acquire notes the
\* time, gives the lock back and returns, and the request is sent.
RateWake(c) ==
    /\ auth.pc = "rate"
    /\ auth.co[c].pc = "sleeping"
    /\ auth.clock >= auth.co[c].wake
    /\ auth' = [auth EXCEPT !.last_request_time = auth.clock,
                            !.lock = NULL,
                            !.acquired = @ + 1,
                            !.co[c].pc = "sent",
                            !.issued = Append(@, auth.clock)]
    /\ UNCHANGED <<now, streams, stream_configs, sources, activities, tasks, probe,
                   req, cron, conn>>

\* google/gmail/client.py lines 32-46: the request of a GmailClient is
\* sent on a client of its own at once.
GmailMakeRequest(c) ==
    /\ auth.pc = "rate" /\ auth.client = "gmail"
    /\ auth.co[c].pc = "idle"
    /\ Len(auth.issued) < MaxSent
    /\ auth' = [auth EXCEPT !.co[c].pc = "sent", !.issued = Append(@, auth.clock)]
    /\ UNCHANGED <<now, streams, stream_configs, sources, activities, tasks, probe,
                   req, cron, conn>>

\* The response arrives and the coroutine goes on.
RateRespond(c) ==
    /\ auth.pc = "rate"
    /\ auth.co[c].pc = "sent"
    /\ auth' = [auth EXCEPT !.co[c].pc = "idle"]
    /\ UNCHANGED <<now, streams, stream_configs, sources, activities, tasks, probe,
                   req, cron, conn>>

RateTick ==
    /\ auth.pc = "rate"
    /\ auth.clock < 100 + MaxElapsed
    /\ auth' = [auth EXCEPT !.clock = @ + 1]
    /\ UNCHANGED <<now, streams, stream_configs, sources, activities, tasks, probe,
                   req, cron, conn>>

NextRate ==
    \/ \E c \in Coroutines : ExecuteRequest(c)
    \/ \E c \in Coroutines : RateAcquire(c)
    \/ \E c \in Coroutines : RateWake(c)
    \/ \E c \in Coroutines : GmailMakeRequest(c)
    \/ \E c \in Coroutines : RateRespond(c)
    \/ RateTick

SpecRate == InitRate /\ [][NextRate]_vars

\* C30: every request a client has sent was preceded by an acquisition of
\* its rate limiter, and no two requests of one client were sent less than
\* 1/requests_per_second apart, whichever coroutines sent them.
C30_RequestsRateLimited ==
    auth.pc = "rate" =>
        /\ auth.acquired = Len(auth.issued)
        /\ \A i, j \in 1..Len(auth.issued) :
               i < j => auth.issued[j] - auth.issued[i] >= min_interval

\* base.py line 211: the waits of three consecutive transient retries.
BackoffWaits == <<1, 2, 4>>

\* C31: a request of the base client that keeps receiving a transient status
\* is retried at most 3 times, after waits of 1, 2 and 4 seconds, and then
\* the last response is handed back; one call of _execute_request always
\* terminates and sends at most 8 requests, a 401 refresh-and-retry included.
C31_TransientRetriesBounded ==
    /\ []((req.pc # "off" /\ req.client = "base") =>
          /\ req.sends <= 2 * (MAX_RETRIES + 1)
          /\ req.sends = 2 * (MAX_RETRIES + 1) => req.pc = "done"
          /\ req.pc # "done" => ENABLED NextHttp
          /\ req.only_transient =>
               /\ Len(req.waits) <= MAX_RETRIES
               /\ req.waits = SubSeq(BackoffWaits, 1, Len(req.waits))
               /\ req.sends <= MAX_RETRIES + 1
               /\ req.pc = "done" =>
                    /\ req.sends = MAX_RETRIES + 1
                    /\ req.waits = BackoffWaits
                    /\ req.result = ResultOf(req.status))
    /\ [][(req.pc # "off" /\ req.client = "base") =>
            req'.sends + req'.refreshes > req.sends + req.refreshes]_vars

C31_Witness ==
    /\ req.pc = "done"
    /\ req.client = "base"
    /\ req.sends = 8
    /\ req.refreshes = 1
    /\ req.waits = BackoffWaits \o BackoffWaits
    /\ req.status = 503

\* ---------------------------------------------------------------------
\* Sync tasks in flight per stream (SpecSched).
\* ---------------------------------------------------------------------

\* The sync tasks a probe enqueued for stream s that have not finished.
PendingSyncs(s) ==
    {t \in TaskIds : /\ IsSync(t)
                     /\ tasks[t].origin > 0
                     /\ tasks[t].stream = s
                     /\ tasks[t].state \in {"queued", "ran"}}

\* C32: for each stream at most one sync task enqueued by a probe is queued
\* or running at any time: while one is pending, later probes enqueue no
\* further sync task for that stream.
C32_OneSyncPerStream ==
    \A s \in StreamIds : Cardinality(PendingSyncs(s)) <= 1

\* ---------------------------------------------------------------------
\* The due test for streams without a success and without a schedule
\* (SpecSched).
\* ---------------------------------------------------------------------

\* `not cron_schedule`, maintenance_tasks.py line 140.
NoSchedule(cfg) == cfg.cron_schedule \in {NULL, ""}

\* A sync of stream s has completed.
SyncCompleted(s) ==
    \E i \in IngestionRows :
        activities[i].stream_id = s /\ activities[i].status = "completed"

\* The part of C33 that reads "never ingested" from the stored timestamp.
NoTimestampDue ==
    /\ [](\A s \in StreamIds :
            LET cfg == stream_configs[streams[s].stream_config_id] IN
            /\ (cfg.last_ingestion_at = NoTime /\ ~ NoSchedule(cfg)) => Due(s, now) = "due"
            /\ NoSchedule(cfg) => Due(s, now) = "not_due")
    /\ [][(probe.state = "running" /\ probe'.state = "idle") =>
            \A s \in StreamIds :
                LET cfg == stream_configs[streams[s].stream_config_id] IN
                /\ NoSchedule(cfg) => ~ NewlyQueued(s)
                /\ (/\ activities'[probe.act].status = "completed"
                    /\ s \in ProbeQuery(Committed, sources)
                    /\ cfg.last_ingestion_at = NoTime
                    /\ ~ NoSchedule(cfg)) => NewlyQueued(s)]_vars

\* C33: a stream that has never been ingested successfully is due at every
\* probe until its first sync completes, and a stream whose cron schedule is
\* null or empty is never due.
C33_NeverSyncedDueUntilFirstSuccess ==
    /\ [](\A s \in StreamIds :
            LET cfg == stream_configs[streams[s].stream_config_id] IN
            /\ (~ SyncCompleted(s) /\ ~ NoSchedule(cfg)) => Due(s, now) = "due"
            /\ NoSchedule(cfg) => Due(s, now) = "not_due")
    /\ [][(probe.state = "running" /\ probe'.state = "idle") =>
            \A s \in StreamIds :
                LET cfg == stream_configs[streams[s].stream_config_id] IN
                /\ NoSchedule(cfg) => ~ NewlyQueued(s)
                /\ (/\ activities'[probe.act].status = "completed"
                    /\ s \in ProbeQuery(Committed, sources)
                    /\ ~ SyncCompleted(s)
                    /\ ~ NoSchedule(cfg)) => NewlyQueued(s)]_vars

-----------------------------------------------------------------------------
(***************************************************************************)
(* Two Sources of one provider (specification SpecShared): stream s1 of    *)
(* source g1 and stream s2 of source g2.  stream_configs has one row per   *)
(* stream type (stream_name, source_name) and no source_id, and every      *)
(* streams row points at the row of its type (generated_models/            *)
(* stream_configs.py, streams.py): when the two streams are of the same    *)
(* type they reference the same stream_configs row.                        *)
(***************************************************************************)
\* streams.stream_config_id of s2 when it is of the type of s1.
SameTypeRows(rows) ==
    [rows EXCEPT !["s2"].stream_config_id = rows["s1"].stream_config_id]

InitShared ==
    /\ now = 0
    /\ \E same_type \in BOOLEAN :
        LET pf == [s \in StreamIds |-> GoodProfile] IN
        /\ streams = IF same_type THEN SameTypeRows(StreamRows(pf)) ELSE StreamRows(pf)
        /\ stream_configs = ConfigRows(pf, NoTime)
        /\ sources = SourceRows(pf)
    /\ activities = <<>>
    /\ tasks = [t \in TaskIds |-> NoTask]
    /\ probe = [state |-> "idle", count |-> 0, act |-> 0, examined |-> 0]
    /\ req = IdleReq
    /\ cron = IdleCron
    /\ auth = IdleAuth
    /\ conn = IdleConn

SpecShared == InitShared /\ [][NextSched]_vars

\* stream_configs.last_ingestion_at as the probe's query joins it to s.
Anchor(s) == stream_configs[streams[s].stream_config_id].last_ingestion_at

\* C34: a completed sync task of one stream changes neither the
\* last-success anchor nor the due/not-due decision of any other stream,
\* another source's stream of the same stream type included.
C34_StreamsScheduledIndependently ==
    [][\A t \in TaskIds, other \in StreamIds :
        (/\ IsSync(t)
         /\ tasks[t].state = "queued"
         /\ tasks'[t].state = "success"
         /\ other # tasks[t].stream) =>
            /\ Anchor(other)' = Anchor(other)
            /\ Due(other, now)' = Due(other, now)]_vars

\* ---------------------------------------------------------------------
\* What one commit of sync_stream makes visible (Spec).
\* ---------------------------------------------------------------------

\* This step commits status st for a running ingestion activity of stream s.
Closes(s, st) ==
    \E i \in IngestionRows :
        /\ activities[i].stream_id = s
        /\ activities[i].status = "running"
        /\ activities'[i].status = st

\* C35: in every committed state an ingestion activity is completed exactly
\* when the last-successful-ingestion advance of the same execution is
\* committed: a commit that completes the activity carries the advance, and
\* no commit carries the advance without completing the activity.
C35_CompletionAndAdvanceTogether ==
    [][\A s \in StreamIds :
        /\ Closes(s, "completed") => Anchor(s)' = now
        /\ Anchor(s)' # Anchor(s) => Closes(s, "completed")]_vars

\* ---------------------------------------------------------------------
\* The refresh token a refresher call sends (SpecTokens).
\* ---------------------------------------------------------------------

\* C36: every call of a source's token refresher sends the refresh token
\* that is stored for that source at the time of the call: once a refresh
\* has stored a rotated refresh token, no later call uses the older one.
C36_RefresherSendsStoredToken ==
    (/\ auth.pc = "tokens"
     /\ auth.last.kind # "none"
     /\ auth.last.stored_before.oauth_refresh_token # NULL) =>
        auth.last.sent = auth.last.stored_before.oauth_refresh_token

\* ---------------------------------------------------------------------
\* refresh_expiring_tokens when the provider rejects a refresh
\* (SpecTokens).  auth.job.resp[g] is the provider's answer to a refresh
\* request for source g.
\* ---------------------------------------------------------------------

\* The sources the job's SELECT returns that have a refresh function.
JobRefreshable ==
    {g \in SourceIds : /\ JobSelects(sources[g], now)
                       /\ HasRefreshFunc(SourceNameOf(g))}

\* C37: in refresh_expiring_tokens the refresh failure of one source does
\* not keep the other selected sources from being refreshed, and the job's
\* token_refresh activity is closed as completed with the counts of the
\* refreshed and of the failed sources, also when some or all failed.
C37_FailureIsolatedAndCounted ==
    [][(auth.pc = "tokens" /\ auth.job.state = "running" /\ auth'.job.state = "done") =>
        LET accepted == {g \in JobRefreshable : auth'.job.resp[g].ok}
            rejected == JobRefreshable \ accepted
        IN  /\ \A g \in accepted :
                  sources'[g].oauth_access_token = auth'.job.resp[g].body.access_token
            /\ activities'[auth.job.act].status = "completed"
            /\ auth'.job.refreshed = Cardinality(accepted)
            /\ auth'.job.failed = Cardinality(rejected)]_vars

\* ---------------------------------------------------------------------
\* Redeeming a device refresh token (SpecDevice).
\* ---------------------------------------------------------------------

\* C38: the refresh token that generate_device_token issued for device D
\* can be redeemed: refresh_device_token(refresh_token, D) returns a new
\* token pair for the same device id, device type and user id, and it
\* returns None only for a refresh token that was not issued for D (every
\* refresh token here carries a signature that verifies).
C38_RefreshTokenRedeemable ==
    (auth.pc = "device" /\ auth.check.kind = "refreshed") =>
        LET issued == auth.issued[auth.check.token].data
            result == auth.check.result
        IN  /\ issued.device_id = auth.check.device_id =>
                  /\ result.ok
                  /\ result.data.device_id = issued.device_id
                  /\ result.data.device_type = issued.device_type
                  /\ result.data.user_id = issued.user_id
            /\ ~ result.ok => issued.device_id # auth.check.device_id

-----------------------------------------------------------------------------
(***************************************************************************)
(* Expiry of OAuth credentials (specification SpecExpiry):                 *)
(* OAuthHandler.is_token_expired and get_valid_token (base/auth/oauth.py)  *)
(* and AuthManager.refresh_credentials (base/auth/manager.py) for a source *)
(* of an OAuth provider.  A credential is a dict with access_token and,    *)
(* optionally, refresh_token and expires_at; expires_at is an ISO text, or *)
(* None as NotionOAuthHandler.exchange_code_for_token stores it.           *)
(***************************************************************************)
MaxClockTicks == 2
StartClock == 600
buffer_seconds == 300
RefreshMinutes == 5

None == <<0 - 2>>
ParseFailed == 0 - 1

ExpiryTimes ==
    {StartClock + buffer_seconds - 1, StartClock + buffer_seconds,
     StartClock + buffer_seconds + 1}

Credentials ==
    LET plain == {[access_token |-> "at0"],
                  [access_token |-> "at0", refresh_token |-> "rt0"]}
        texts == {None} \cup {isoformat(t) : t \in ExpiryTimes}
    IN  plain \cup {[expires_at |-> x] @@ c : c \in plain, x \in texts}

\* int(text) for a text of decimal digits.
RECURSIVE ParseInt(_)
ParseInt(text) ==
    IF text = <<>> THEN 0
    ELSE ParseInt(SubSeq(text, 1, Len(text) - 1)) * 10 + (text[Len(text)] - 48)

\* datetime.fromisoformat: TypeError for None, ValueError for a text that
\* is no ISO time (the empty text included), else the time it denotes.
fromisoformat(text) ==
    IF text = None \/ text = <<>> THEN ParseFailed
    ELSE LET parts == split(text, Colon) IN
         IF Len(parts) # 2 THEN ParseFailed
         ELSE ParseInt(parts[1]) * 60 + ParseInt(parts[2])

\* oauth.py lines 160-177: "raised" when fromisoformat raises.
is_token_expired(expires_at, buffer, t_now) ==
    LET expiry == fromisoformat(expires_at) IN
    IF expiry = ParseFailed THEN "raised"
    ELSE IF t_now + buffer >= expiry THEN "expired"
    ELSE "valid"

ProviderAnswersToRefresh == {"token", "rejected"}

\* oauth.py lines 119-158 as seen by its caller.
refresh_access_token(answer) ==
    IF answer = "token"
    THEN [kind |-> "returned", access_token |-> "at1", provider_called |-> TRUE]
    ELSE [kind |-> "raised", access_token |-> NULL, provider_called |-> TRUE]

\* oauth.py lines 179-201.
get_valid_token(token_data, t_now, answer) ==
    LET expired == is_token_expired(Get(token_data, "expires_at", <<>>),
                                    buffer_seconds, t_now) IN
    IF expired = "raised"
    THEN [kind |-> "raised", access_token |-> NULL, provider_called |-> FALSE]
    ELSE IF expired = "expired"
    THEN IF "refresh_token" \in DOMAIN token_data
         THEN refresh_access_token(answer)
         ELSE [kind |-> "raised", access_token |-> NULL, provider_called |-> FALSE]
    ELSE [kind |-> "returned", access_token |-> token_data.access_token,
          provider_called |-> FALSE]

\* `if expires_at:` for a text or None.
Truthy(text) == text # None /\ text # <<>>

NoneReturned == [kind |-> "none", access_token |-> NULL, provider_called |-> FALSE]

\* manager.py lines 261-307, the OAuth branch; _authenticate_oauth with a
\* refresh token (lines 164-174) calls the handler's refresh_access_token.
refresh_credentials(current_credentials, t_now, answer) ==
    LET expires_at == Get(current_credentials, "expires_at", None) IN
    IF ~ Truthy(expires_at) THEN NoneReturned
    ELSE LET expiry == fromisoformat(expires_at) IN
         IF expiry = ParseFailed
         THEN [kind |-> "raised", access_token |-> NULL, provider_called |-> FALSE]
         ELSE IF expiry <= t_now + RefreshMinutes * 60
                   /\ "refresh_token" \in DOMAIN current_credentials
         THEN refresh_access_token(answer)
         ELSE NoneReturned

InitExpiry ==
    /\ now = StartClock
    /\ streams = StreamRows([s \in StreamIds |-> GoodProfile])
    /\ stream_configs = ConfigRows([s \in StreamIds |-> GoodProfile], NoTime)
    /\ sources = SourceRows([s \in StreamIds |-> GoodProfile])
    /\ activities = <<>>
    /\ tasks = [t \in TaskIds |-> NoTask]
    /\ probe = [state |-> "idle", count |-> 0, act |-> 0, examined |-> 0]
    /\ req = IdleReq
    /\ cron = IdleCron
    /\ conn = IdleConn
    /\ \E c \in Credentials :
           auth = [pc |-> "expiry", credentials |-> c, call |-> "none",
                   at |-> StartClock, result |-> NoneReturned]

GetValidToken(answer) ==
    /\ auth.pc = "expiry"
    /\ auth' = [auth EXCEPT !.call = "get_valid_token", !.at = now,
                            !.result = get_valid_token(auth.credentials, now, answer)]
    /\ UNCHANGED <<now, streams, stream_configs, sources, activities, tasks, probe,
                   req, cron, conn>>

RefreshCredentials(answer) ==
    /\ auth.pc = "expiry"
    /\ auth' = [auth EXCEPT !.call = "refresh_credentials", !.at = now,
                            !.result = refresh_credentials(auth.credentials, now, answer)]
    /\ UNCHANGED <<now, streams, stream_configs, sources, activities, tasks, probe,
                   req, cron, conn>>

ExpiryTick ==
    /\ auth.pc = "expiry"
    /\ now < StartClock + MaxClockTicks
    /\ now' = now + 1
    /\ UNCHANGED <<streams, stream_configs, sources, activities, tasks, probe,
                   req, cron, auth, conn>>

NextExpiry ==
    \/ \E answer \in ProviderAnswersToRefresh : GetValidToken(answer)
    \/ \E answer \in ProviderAnswersToRefresh : RefreshCredentials(answer)
    \/ ExpiryTick

SpecExpiry == InitExpiry /\ [][NextExpiry]_vars

\* The credential carries no expiry: no expires_at, or None.
NoExpiry(c) == ~ Truthy(Get(c, "expires_at", None))

\* The part of C39 about credentials that carry an expiry.
ExpiryWindowExact ==
    (auth.pc = "expiry" /\ auth.call # "none" /\ ~ NoExpiry(auth.credentials)
        /\ "refresh_token" \in DOMAIN auth.credentials) =>
        (auth.result.provider_called <=>
            fromisoformat(auth.credentials.expires_at) <= auth.at + buffer_seconds)

\* C39: a credential is treated as expiring exactly when its expiry is at
\* or before now plus the window of 300 seconds, and a credential with no
\* expiry is never treated as expiring: get_valid_token returns its stored
\* access token without calling the provider and refresh_credentials
\* returns None for it.
C39_ExpiringExactlyWithinWindow ==
    (auth.pc = "expiry" /\ auth.call # "none") =>
        /\ (~ NoExpiry(auth.credentials) /\ "refresh_token" \in DOMAIN auth.credentials) =>
              (auth.result.provider_called <=>
                  fromisoformat(auth.credentials.expires_at) <= auth.at + buffer_seconds)
        /\ (NoExpiry(auth.credentials) /\ auth.call = "get_valid_token") =>
              /\ auth.result.kind = "returned"
              /\ auth.result.access_token = auth.credentials.access_token
              /\ ~ auth.result.provider_called
        /\ (NoExpiry(auth.credentials) /\ auth.call = "refresh_credentials") =>
              auth.result = NoneReturned

====
